---- MODULE Spec2Model ----
(***************************************************************************)
(* A model of python-repomix's document assembly and splitting engine.     *)
(*                                                                         *)
(* Strings are sequences of one-character tokens, so that the string       *)
(* operations of the source (replace, split, suffix, encode) are computed  *)
(* rather than assumed.  The tokens "u2" and "u3" stand for one character  *)
(* whose UTF-8 encoding takes two and three bytes.                         *)
(* An optional value is <<>> (None) or <<v>>.                              *)
(***************************************************************************)
EXTENDS Integers, Sequences, FiniteSets, TLC

VARIABLES
    \* generate_split_output_parts: arguments
    processed_files, all_file_paths, max_bytes_per_part, base_config,
    git_diff_result, git_log_result,
    \* generate_split_output_parts: locals, position, outcome
    pc, groups, gi, parts, current_groups, current_content, current_bytes,
    renders, error, result,
    \* RepoProcessor.process: the processor's configuration, the files the
    \* search collects, the security check's findings, the write_output
    \* argument; its position, output and error; the files written and the
    \* texts printed
    self_config, raw_files, suspicious_file_paths, write_output,
    proc_pc, output_content, proc_error, written, printed,
    \* build_token_count_tree: argument, position, the tree built
    files_with_tokens, tree_pc, tree_root,
    \* format_token_count_tree and report_token_count_tree: the value of
    \* config.output.token_count_tree, the token counts by path, the
    \* threshold, the lines of the listing and of the report
    token_count_tree_config, file_token_counts, min_token_count,
    tree_listing, tree_report,
    \* generate_output: the files of the run and their character and token
    \* counts, the files of the call, the configuration, the tree passed in,
    \* the VCS results; its position, the document returned, the error
    gen_all_files, gen_char_counts, gen_token_counts, gen_files, gen_config,
    gen_file_tree, gen_diff_result, gen_log_result,
    gen_pc, gen_output, gen_error,
    \* the tree builders of repo_processor.py: the entries of the directory,
    \* the resolved ignore patterns, the configuration, the order in which
    \* the filesystem enumerates; the position and the tree built
    walk_entries, walk_patterns, walk_config, walk_enumeration,
    walk_pc, walk_tree,
    \* RepoProcessor.process collecting the files of self.directories: the
    \* directories, the files the search finds in each; the position, the
    \* loop index, the files collected and the tree
    self_directories, found_files, collect_pc, di, all_raw_files, merged_tree,
    \* RepoProcessor.process of a remote repository: whether repo_url is
    \* set, the write_output argument and the step that fails, for each call;
    \* the call, the position, self.temp_dir, the temporary directories that
    \* exist, and how the call ends
    repo_url, remote_write_output, remote_failing,
    remote_call, remote_pc, self_temp_dir, temp_directories, remote_outcome,
    \* run_default_action: the options; its position, the error raised,
    \* whether a configuration was loaded, a processor created, and run
    options, action_pc, action_error, config_loaded, processor_created,
    processor_ran,
    \* run_cli: the verbose flag of the shared logger and its value before
    \* the first invocation; of each invocation, cli_options.quiet, whether
    \* its default action raises, its position, its original_verbose and
    \* what it returns
    logger_verbose, verbose_before, cli_quiet, cli_raises, cli_pc,
    original_verbose, cli_result,
    \* merge_configs and the style of the merged configuration: the global
    \* and the local configuration file, the CLI options; the position, the
    \* merged configuration, the error of the last assignment and the
    \* number of assignments made
    global_file, local_file, cli_options,
    config_pc, merged_config, config_error, assignments

splitArgs == <<processed_files, all_file_paths, max_bytes_per_part, base_config,
               git_diff_result, git_log_result>>
splitLocals == <<pc, groups, gi, parts, current_groups, current_content,
                 current_bytes, renders, error, result>>
splitVars == <<splitArgs, splitLocals>>
procArgs == <<self_config, raw_files, suspicious_file_paths, write_output>>
procVars == <<procArgs, proc_pc, output_content, proc_error, written, printed>>
treeArgs == <<files_with_tokens, token_count_tree_config, file_token_counts>>
treeVars == <<treeArgs, tree_pc, tree_root, min_token_count, tree_listing,
              tree_report>>
genArgs == <<gen_all_files, gen_char_counts, gen_token_counts, gen_files,
             gen_config, gen_file_tree, gen_diff_result, gen_log_result>>
genVars == <<genArgs, gen_pc, gen_output, gen_error>>
walkArgs == <<walk_entries, walk_patterns, walk_config, walk_enumeration>>
walkVars == <<walkArgs, walk_pc, walk_tree>>
collectArgs == <<self_directories, found_files>>
collectVars == <<collectArgs, collect_pc, di, all_raw_files, merged_tree>>
remoteArgs == <<repo_url, remote_write_output, remote_failing>>
remoteVars == <<remoteArgs, remote_call, remote_pc, self_temp_dir, temp_directories,
                remote_outcome>>
actionVars == <<options, action_pc, action_error, config_loaded, processor_created,
                processor_ran>>
cliArgs == <<verbose_before, cli_quiet, cli_raises>>
cliVars == <<cliArgs, logger_verbose, cli_pc, original_verbose, cli_result>>
configVars == <<global_file, local_file, cli_options, config_pc, merged_config,
                config_error, assignments>>
vars == <<splitVars, procVars, treeVars, genVars, walkVars, collectVars, remoteVars, actionVars, cliVars, configVars>>

None == <<>>
Some(v) == <<v>>

----------------------------------------------------------------------------
(* Bounds of the model *)

\* most processed files in one call
MaxFiles == 3
\* largest byte limit tried
MaxLimit == 12
\* most files one run of the processor collects
MaxRepoFiles == 2
\* most entries in one call of build_token_count_tree
MaxTreeFiles == 3
\* largest display threshold tried
MaxThreshold == 3
\* most directories given to one run
MaxDirectories == 3
\* most calls of process on one processor
MaxCalls == 2
\* most invocations of run_cli at the same time
MaxInvocations == 2
\* most assignments of a style after the merge
MaxAssignments == 1

----------------------------------------------------------------------------
(* Strings *)

\* the code point of a character, which orders Python strings
CodePoint(c) ==
    CASE c = "." -> 46 [] c = "/" -> 47 [] c = "\\" -> 92
      [] c = "*" -> 42 [] c = "F" -> 70
      [] c = "a" -> 97 [] c = "b" -> 98 [] c = "c" -> 99 [] c = "d" -> 100
      [] c = "e" -> 101 [] c = "f" -> 102 [] c = "g" -> 103
      [] c = "m" -> 109 [] c = "o" -> 111 [] c = "p" -> 112
      [] c = "s" -> 115 [] c = "t" -> 116 [] c = "w" -> 119
      [] c = "x" -> 120 [] c = "y" -> 121
      [] OTHER -> 0

RECURSIVE StrLess(_, _)
\* s < t on Python strings
StrLess(s, t) ==
    IF t = <<>> THEN FALSE
    ELSE IF s = <<>> THEN TRUE
    ELSE IF CodePoint(Head(s)) # CodePoint(Head(t))
         THEN CodePoint(Head(s)) < CodePoint(Head(t))
    ELSE StrLess(Tail(s), Tail(t))

\* str.replace for one-character arguments
StrReplace(s, old, new) ==
    [i \in 1..Len(s) |-> IF s[i] = old THEN new ELSE s[i]]

\* the least index of sep in s, or 0
IndexOf(s, sep) ==
    IF \E i \in 1..Len(s) : s[i] = sep
    THEN CHOOSE i \in 1..Len(s) : s[i] = sep /\ \A j \in 1..(i-1) : s[j] # sep
    ELSE 0

RECURSIVE StrSplit(_, _)
\* str.split(sep): always at least one piece
StrSplit(s, sep) ==
    LET i == IndexOf(s, sep)
    IN  IF i = 0 THEN <<s>>
        ELSE <<SubSeq(s, 1, i-1)>> \o StrSplit(SubSeq(s, i+1, Len(s)), sep)

\* the UTF-8 width of one character
Utf8Width(c) == CASE c = "u3" -> 3 [] c = "u2" -> 2 [] OTHER -> 1

RECURSIVE EncodedLength(_)
EncodedLength(s) ==
    IF s = <<>> THEN 0 ELSE Utf8Width(Head(s)) + EncodedLength(Tail(s))

\* a mutant of get_utf8_byte_length: counts characters, not bytes
get_utf8_byte_length_chars(content) == Len(content)

get_utf8_byte_length(content) == EncodedLength(content)

RECURSIVE Flatten(_)
Flatten(ss) == IF ss = <<>> THEN <<>> ELSE Head(ss) \o Flatten(Tail(ss))

----------------------------------------------------------------------------
(* output_split.py: groups *)

\* a mutant of get_root_entry: no separator normalisation
get_root_entry_raw(relative_file_path) ==
    StrSplit(relative_file_path, "/")[1]

get_root_entry(relative_file_path) ==
    LET normalized == StrReplace(relative_file_path, "\\", "/")
        path_parts == StrSplit(normalized, "/")
    IN  IF path_parts # <<>> THEN path_parts[1] ELSE normalized

OutputSplitGroup(root, pfs, afps) ==
    [root_entry |-> root, processed_files |-> pfs, all_file_paths |-> afps]

\* the position of root in the insertion-ordered dict, or 0
GroupAt(gs, root) ==
    IF \E i \in 1..Len(gs) : gs[i].root_entry = root
    THEN CHOOSE i \in 1..Len(gs) : gs[i].root_entry = root
    ELSE 0

RECURSIVE AddAllPaths(_, _)
\* lines 62-66: the loop over all_file_paths
AddAllPaths(gs, paths) ==
    IF paths = <<>> THEN gs
    ELSE LET root == get_root_entry(Head(paths))
             i == GroupAt(gs, root)
             gs1 == IF i = 0 THEN Append(gs, OutputSplitGroup(root, <<>>, <<>>)) ELSE gs
             j == GroupAt(gs1, root)
         IN  AddAllPaths(
                 [gs1 EXCEPT ![j].all_file_paths = Append(@, Head(paths))],
                 Tail(paths))

RECURSIVE AddProcessed(_, _)
\* lines 69-73: the loop over processed_files
AddProcessed(gs, files) ==
    IF files = <<>> THEN gs
    ELSE LET f == Head(files)
             root == get_root_entry(f.path)
             i == GroupAt(gs, root)
             gs1 == IF i = 0
                    THEN Append(gs, OutputSplitGroup(root, <<>>, <<f.path>>))
                    ELSE gs
             j == GroupAt(gs1, root)
         IN  AddProcessed(
                 [gs1 EXCEPT ![j].processed_files = Append(@, f)],
                 Tail(files))

\* a mutant of SortedByRoot: the dict's insertion order, unsorted
SortedByRootNot(gs) == gs

RECURSIVE SortedByRoot(_)
\* sorted(values, key=root_entry): the keys of a dict are distinct
SortedByRoot(gs) ==
    IF gs = <<>> THEN <<>>
    ELSE LET m == CHOOSE i \in 1..Len(gs) :
                      \A j \in 1..Len(gs) :
                          j # i => StrLess(gs[i].root_entry, gs[j].root_entry)
         IN  <<gs[m]>> \o SortedByRoot(
                 [k \in 1..(Len(gs)-1) |-> IF k < m THEN gs[k] ELSE gs[k+1]])

\* a mutant of build_output_split_groups: only the processed files make
\* groups
build_output_split_groups_processed(files, paths) ==
    SortedByRoot(AddProcessed(<<>>, files))

build_output_split_groups(files, paths) ==
    SortedByRoot(AddProcessed(AddAllPaths(<<>>, paths), files))

----------------------------------------------------------------------------
(* pathlib, as build_split_output_file_path and build_filtered_file_tree   *)
(* use it (PurePosixPath)                                                  *)

RECURSIVE StrJoin(_, _)
StrJoin(pieces, sep) ==
    IF pieces = <<>> THEN <<>>
    ELSE IF Len(pieces) = 1 THEN pieces[1]
    ELSE pieces[1] \o <<sep>> \o StrJoin(Tail(pieces), sep)

\* Path(s): whether it is rooted, and its components without the empty and
\* "." ones
PathRooted(s) == s # <<>> /\ s[1] = "/"
PathNames(s) ==
    SelectSeq(StrSplit(s, "/"), LAMBDA piece : piece # <<>> /\ piece # <<".">>)

\* Path(s).parts
PathParts(s) ==
    IF PathRooted(s) THEN <<<<"/">>>> \o PathNames(s) ELSE PathNames(s)

\* str(Path(...)) of a rooted flag and components
PathStr(rooted, names) ==
    IF rooted THEN <<"/">> \o StrJoin(names, "/")
    ELSE IF names = <<>> THEN <<".">>
    ELSE StrJoin(names, "/")

\* Path(s).name
PathName(s) ==
    IF PathNames(s) = <<>> THEN <<>> ELSE PathNames(s)[Len(PathNames(s))]

\* str.rfind for one character: the greatest index, or 0
LastIndexOf(s, c) ==
    IF \E i \in 1..Len(s) : s[i] = c
    THEN CHOOSE i \in 1..Len(s) : s[i] = c /\ \A j \in (i+1)..Len(s) : s[j] # c
    ELSE 0

\* Path(s).suffix: from the last dot of the name, unless that dot is the
\* first or the last character of the name
PathSuffix(s) ==
    LET name == PathName(s)
        i == LastIndexOf(name, ".")
    IN  IF 1 < i /\ i < Len(name) THEN SubSeq(name, i, Len(name)) ELSE <<>>

\* str(Path(s).with_suffix("")), for a path that has a suffix
PathWithoutSuffix(s) ==
    LET names == PathNames(s)
        name == PathName(s)
        stem == SubSeq(name, 1, Len(name) - Len(PathSuffix(s)))
    IN  PathStr(PathRooted(s), [names EXCEPT ![Len(names)] = stem])

\* a mutant of build_split_output_file_path: the index goes after the
\* extension
build_split_output_file_path_after(base_file_path, part_index) ==
    base_file_path \o <<".", ToString(part_index)>>

build_split_output_file_path(base_file_path, part_index) ==
    LET ext == PathSuffix(base_file_path)
    IN  IF ext = <<>>
        THEN base_file_path \o <<".", ToString(part_index)>>
        ELSE PathWithoutSuffix(base_file_path)
                 \o <<".", ToString(part_index)>> \o ext

----------------------------------------------------------------------------
(* output_generate.py *)

\* the prefixes of a component list, shortest first, without the whole list
ProperPrefixes(path_parts) ==
    [i \in 1..(Len(path_parts) - 1) |-> SubSeq(path_parts, 1, i)]

RECURSIVE build_filtered_file_tree(_)
\* The nested dict, as the set of its nodes: each node is the component
\* list from the root and whether its value is "" (a file) or a dict.
build_filtered_file_tree(files) ==
    IF files = <<>> THEN {}
    ELSE LET before == build_filtered_file_tree(SubSeq(files, 1, Len(files) - 1))
             path_parts == PathParts(files[Len(files)].path)
             dirs == {[parts |-> ProperPrefixes(path_parts)[i], leaf |-> FALSE] :
                          i \in 1..(Len(path_parts) - 1)}
         IN  IF path_parts = <<>> THEN before
             ELSE {n \in before : n.parts # path_parts}
                      \cup {d \in dirs : \A n \in before : n.parts # d.parts}
                      \cup {[parts |-> path_parts, leaf |-> TRUE]}

\* the sections of an output style
generate_header == <<"H">>
generate_file_tree_section(tree) ==
    <<"T">> \o [i \in 1..Cardinality(tree) |-> "t"]
generate_files_section(files) ==
    Flatten([i \in 1..Len(files) |-> <<"F">> \o files[i].content])
generate_git_diff_section(diff) == <<"D">> \o diff
generate_git_log_section(commits) == <<"L">> \o commits
generate_statistics(total_files) == <<"S">>
generate_footer == <<>>

generate_output(files, config, file_tree, diff_result, log_result) ==
    LET display_tree == IF config.include_full_directory_structure
                        THEN file_tree
                        ELSE build_filtered_file_tree(files)
    IN  generate_header
            \o generate_file_tree_section(display_tree)
            \o generate_files_section(files)
            \o (IF config.include_diffs /\ diff_result # None
                THEN generate_git_diff_section(diff_result[1]) ELSE <<>>)
            \o (IF config.include_logs /\ log_result # None
                THEN generate_git_log_section(log_result[1]) ELSE <<>>)
            \o generate_statistics(Len(files))
            \o generate_footer

----------------------------------------------------------------------------
(* output_split.py: the planner *)

\* a mutant of make_chunk_config: every chunk keeps the base configuration
make_chunk_config_base(config, part_index) == config

make_chunk_config(config, part_index) ==
    IF part_index = 1 THEN config
    ELSE [config EXCEPT !.include_diffs = FALSE, !.include_logs = FALSE]

\* a mutant of InvalidLimit: zero is let through
InvalidLimitNegative(max_bytes) == max_bytes < 0

\* line 163
InvalidLimit(max_bytes) == max_bytes <= 0

ChunkFiles(groups_to_render) ==
    Flatten([i \in 1..Len(groups_to_render) |-> groups_to_render[i].processed_files])

\* render_groups: the arguments it passes to generate_output_fn
RenderCall(groups_to_render, part_index) ==
    [part_index |-> part_index,
     files |-> ChunkFiles(groups_to_render),
     config |-> make_chunk_config(base_config, part_index),
     file_tree |-> build_filtered_file_tree(ChunkFiles(groups_to_render)),
     git_diff_result |-> IF part_index = 1 THEN git_diff_result ELSE None,
     git_log_result |-> IF part_index = 1 THEN git_log_result ELSE None]

\* render_groups: what generate_output_fn returns for them
render_groups(groups_to_render, part_index) ==
    LET call == RenderCall(groups_to_render, part_index)
    IN  generate_output(call.files, call.config, call.file_tree,
                        call.git_diff_result, call.git_log_result)

OutputSplitPart(index, content, byte_length, part_groups) ==
    [index |-> index,
     file_path |-> build_split_output_file_path(base_config.file_path, index),
     content |-> content,
     byte_length |-> byte_length,
     groups |-> part_groups]

SizeError(group, bytes) ==
    [kind |-> "exceeds max size", root_entry |-> group.root_entry,
     size |-> bytes, limit |-> max_bytes_per_part]

----------------------------------------------------------------------------
(* The calls of generate_split_output_parts that are tried *)

FilePool ==
    { [path |-> <<"a", "/", "x">>, content |-> <<"x">>],
      [path |-> <<"a", "\\", "y">>, content |-> <<"u3">>],
      [path |-> <<"b">>, content |-> <<"x">>],
      [path |-> <<"c", "/", "x">>, content |-> <<"u2">>] }

\* lists of distinct processed files (the path is a unique key)
ProcessedLists ==
    { fs \in UNION { [1..n -> FilePool] : n \in 0..MaxFiles } :
          \A i, j \in 1..Len(fs) : i # j => fs[i] # fs[j] }

PathsOf(files) == [i \in 1..Len(files) |-> files[i].path]

\* candidate path lists: none, the processed files' own paths, and those
\* with a path that was searched but not processed
CandidateLists(files) ==
    { <<>>, PathsOf(files), PathsOf(files) \o << <<"d", "/", "x">> >> }

BasePaths ==
    { <<"o", ".", "m">>, <<"o">>, <<".", "/", "o", ".", "m">>,
      <<"d", ".", "d", "/", "o">> }

\* RepomixConfig(), with the fields of config.output and config.output.git
\* that the model reads, at their defaults
DefaultConfig ==
    [file_path |-> <<"o", ".", "m">>, include_diffs |-> FALSE,
     include_logs |-> FALSE, include_full_directory_structure |-> FALSE,
     split_output |-> None, stdout |-> FALSE]

\* RepomixConfig(): the fields of config.output and config.output.git that
\* generate_output and the JSON style read, at their defaults
DefaultOutputConfig ==
    [style |-> "markdown", show_directory_structure |-> TRUE, files |-> TRUE,
     show_file_stats |-> FALSE, calculate_tokens |-> FALSE,
     include_full_directory_structure |-> FALSE,
     include_diffs |-> FALSE, include_logs |-> FALSE]

\* the processor, the token count tree, the generator and the planner when
\* not in use
ProcIdle ==
    /\ self_config = DefaultConfig
    /\ raw_files = <<>>
    /\ suspicious_file_paths = {}
    /\ write_output = FALSE
    /\ proc_pc = "idle"
    /\ output_content = <<>>
    /\ proc_error = None
    /\ written = {}
    /\ printed = <<>>
TreeIdle ==
    /\ files_with_tokens = <<>>
    /\ token_count_tree_config = [type |-> "bool", value |-> 0, digits |-> FALSE]
    /\ file_token_counts = <<>>
    /\ tree_pc = "idle"
    /\ tree_root = <<>>
    /\ min_token_count = 0
    /\ tree_listing = <<>>
    /\ tree_report = <<>>
CollectIdle ==
    /\ self_directories = <<>>
    /\ found_files = <<>>
    /\ collect_pc = "idle"
    /\ di = 0
    /\ all_raw_files = <<>>
    /\ merged_tree = <<>>
RemoteIdle ==
    /\ repo_url = FALSE
    /\ remote_write_output = FALSE
    /\ remote_failing = <<>>
    /\ remote_call = 0
    /\ remote_pc = "idle"
    /\ self_temp_dir = <<>>
    /\ temp_directories = {}
    /\ remote_outcome = "none"
ActionIdle ==
    /\ options = <<>>
    /\ action_pc = "idle"
    /\ action_error = <<>>
    /\ config_loaded = FALSE
    /\ processor_created = FALSE
    /\ processor_ran = FALSE
CliIdle ==
    /\ logger_verbose = FALSE
    /\ verbose_before = FALSE
    /\ cli_quiet = <<>>
    /\ cli_raises = <<>>
    /\ cli_pc = <<>>
    /\ original_verbose = <<>>
    /\ cli_result = <<>>
ConfigIdle ==
    /\ global_file = <<>>
    /\ local_file = <<>>
    /\ cli_options = <<>>
    /\ config_pc = "idle"
    /\ merged_config = <<>>
    /\ config_error = <<>>
    /\ assignments = 0
WalkIdle ==
    /\ walk_entries = {}
    /\ walk_patterns = {}
    /\ walk_config = [include_empty_directories |-> FALSE,
                      include_full_directory_structure |-> FALSE]
    /\ walk_enumeration = <<>>
    /\ walk_pc = "idle"
    /\ walk_tree = <<>>
GenIdle ==
    /\ gen_all_files = <<>>
    /\ gen_char_counts = <<>>
    /\ gen_token_counts = <<>>
    /\ gen_files = <<>>
    /\ gen_config = DefaultOutputConfig
    /\ gen_file_tree = {}
    /\ gen_diff_result = None
    /\ gen_log_result = None
    /\ gen_pc = "idle"
    /\ gen_output = None
    /\ gen_error = None
SplitIdle ==
    /\ processed_files = <<>>
    /\ all_file_paths = <<>>
    /\ max_bytes_per_part = 0
    /\ base_config = DefaultConfig
    /\ git_diff_result = None
    /\ git_log_result = None
    /\ pc = "idle"
    /\ groups = None
    /\ gi = 0
    /\ parts = <<>>
    /\ current_groups = <<>>
    /\ current_content = <<>>
    /\ current_bytes = 0
    /\ renders = {}
    /\ error = None
    /\ result = None

\* invalid limits, limits no output fits in, limits only an output without
\* files fits in, and the limits from the smallest output with a file on
Limits == {-1, 0, 2, 3} \cup 6..MaxLimit

\* the VCS blocks handed to the call: none, or a diff and a log
GitResults == { <<None, None>>, <<Some(<<"x">>), Some(<<"x", "x">>)>> }

SplitInit ==
    /\ processed_files \in ProcessedLists
    /\ all_file_paths \in CandidateLists(processed_files)
    /\ max_bytes_per_part \in Limits
    /\ base_config \in [file_path : BasePaths,
                        include_diffs : BOOLEAN, include_logs : BOOLEAN,
                        include_full_directory_structure : {FALSE}]
    /\ \E r \in GitResults : git_diff_result = r[1] /\ git_log_result = r[2]
    /\ pc = "start"
    /\ groups = None
    /\ gi = 0
    /\ parts = <<>>
    /\ current_groups = <<>>
    /\ current_content = <<>>
    /\ current_bytes = 0
    /\ renders = {}
    /\ error = None
    /\ result = None
    /\ ProcIdle
    /\ ConfigIdle
    /\ CliIdle
    /\ ActionIdle
    /\ RemoteIdle
    /\ CollectIdle
    /\ TreeIdle
    /\ GenIdle
    /\ WalkIdle

----------------------------------------------------------------------------
(* generate_split_output_parts, one action per path through its code *)

\* lines 163-164
RaiseInvalidLimit ==
    /\ pc = "start"
    /\ InvalidLimit(max_bytes_per_part)
    /\ error' = Some([kind |-> "Invalid max_bytes_per_part", root_entry |-> <<>>,
                      size |-> 0, limit |-> max_bytes_per_part])
    /\ pc' = "raised"
    /\ UNCHANGED <<collectVars, remoteVars, actionVars, cliVars, configVars, procVars, treeVars, genVars, walkVars, splitArgs, groups, gi, parts, current_groups,
                   current_content, current_bytes, renders, result>>

\* lines 166-168
ReturnNoGroups ==
    /\ pc = "start"
    /\ ~InvalidLimit(max_bytes_per_part)
    /\ build_output_split_groups(processed_files, all_file_paths) = <<>>
    /\ groups' = Some(<<>>)
    /\ result' = Some(<<>>)
    /\ pc' = "returned"
    /\ UNCHANGED <<collectVars, remoteVars, actionVars, cliVars, configVars, procVars, treeVars, genVars, walkVars, splitArgs, gi, parts, current_groups, current_content,
                   current_bytes, renders, error>>

\* lines 166-201
EnterLoop ==
    /\ pc = "start"
    /\ ~InvalidLimit(max_bytes_per_part)
    /\ build_output_split_groups(processed_files, all_file_paths) # <<>>
    /\ groups' = Some(build_output_split_groups(processed_files, all_file_paths))
    /\ gi' = 1
    /\ pc' = "loop"
    /\ UNCHANGED <<collectVars, remoteVars, actionVars, cliVars, configVars, procVars, treeVars, genVars, walkVars, splitArgs, parts, current_groups, current_content,
                   current_bytes, renders, error, result>>

InLoop == pc = "loop" /\ gi <= Len(groups[1])
group == groups[1][gi]
part_index == Len(parts) + 1
next_groups == Append(current_groups, group)
\* a mutant of next_content: the candidate is measured one byte too long
next_content_padded == render_groups(next_groups, part_index) \o <<"x">>
next_content == render_groups(next_groups, part_index)
next_bytes == get_utf8_byte_length(next_content)
\* a mutant of new_part_index: the index from before the part was appended
new_part_index_stale == Len(parts) + 1
\* line 233, seen from before line 223 appends the part
new_part_index == Len(parts) + 2
\* a mutant of single_group_content: the group alone, rendered as part 1
single_group_content_first == render_groups(<<group>>, 1)
single_group_content == render_groups(<<group>>, new_part_index)
single_group_bytes == get_utf8_byte_length(single_group_content)

\* lines 204-215
KeepInPart ==
    /\ InLoop
    /\ next_bytes <= max_bytes_per_part
    /\ current_groups' = next_groups
    /\ current_content' = next_content
    /\ current_bytes' = next_bytes
    /\ renders' = renders \cup {RenderCall(next_groups, part_index)}
    /\ gi' = gi + 1
    /\ UNCHANGED <<collectVars, remoteVars, actionVars, cliVars, configVars, procVars, treeVars, genVars, walkVars, splitArgs, pc, groups, parts, error, result>>

\* lines 204-220
RaiseFirstGroupTooLarge ==
    /\ InLoop
    /\ ~(next_bytes <= max_bytes_per_part)
    /\ current_groups = <<>>
    /\ renders' = renders \cup {RenderCall(next_groups, part_index)}
    /\ error' = Some(SizeError(group, next_bytes))
    /\ pc' = "raised"
    /\ UNCHANGED <<collectVars, remoteVars, actionVars, cliVars, configVars, procVars, treeVars, genVars, walkVars, splitArgs, groups, gi, parts, current_groups,
                   current_content, current_bytes, result>>

\* lines 204-247, the single group fits
StartNewPart ==
    /\ InLoop
    /\ ~(next_bytes <= max_bytes_per_part)
    /\ current_groups # <<>>
    /\ ~(single_group_bytes > max_bytes_per_part)
    /\ parts' = Append(parts, OutputSplitPart(part_index, current_content,
                                              current_bytes, current_groups))
    /\ renders' = renders \cup {RenderCall(next_groups, part_index),
                                RenderCall(<<group>>, new_part_index)}
    /\ current_groups' = <<group>>
    /\ current_content' = single_group_content
    /\ current_bytes' = single_group_bytes
    /\ gi' = gi + 1
    /\ UNCHANGED <<collectVars, remoteVars, actionVars, cliVars, configVars, procVars, treeVars, genVars, walkVars, splitArgs, pc, groups, error, result>>

\* lines 204-243, the single group does not fit
RaiseGroupTooLarge ==
    /\ InLoop
    /\ ~(next_bytes <= max_bytes_per_part)
    /\ current_groups # <<>>
    /\ single_group_bytes > max_bytes_per_part
    /\ parts' = Append(parts, OutputSplitPart(part_index, current_content,
                                              current_bytes, current_groups))
    /\ renders' = renders \cup {RenderCall(next_groups, part_index),
                                RenderCall(<<group>>, new_part_index)}
    /\ error' = Some(SizeError(group, single_group_bytes))
    /\ pc' = "raised"
    /\ UNCHANGED <<collectVars, remoteVars, actionVars, cliVars, configVars, procVars, treeVars, genVars, walkVars, splitArgs, groups, gi, current_groups, current_content,
                   current_bytes, result>>

\* lines 249-262
ReturnParts ==
    /\ pc = "loop"
    /\ gi > Len(groups[1])
    /\ parts' = IF current_groups # <<>>
                THEN Append(parts, OutputSplitPart(part_index, current_content,
                                                   current_bytes, current_groups))
                ELSE parts
    /\ result' = Some(parts')
    /\ pc' = "returned"
    /\ UNCHANGED <<collectVars, remoteVars, actionVars, cliVars, configVars, procVars, treeVars, genVars, walkVars, splitArgs, groups, gi, current_groups, current_content,
                   current_bytes, renders, error>>

SplitNext ==
    \/ RaiseInvalidLimit
    \/ ReturnNoGroups
    \/ EnterLoop
    \/ KeepInPart
    \/ RaiseFirstGroupTooLarge
    \/ StartNewPart
    \/ RaiseGroupTooLarge
    \/ ReturnParts

SplitSpec == SplitInit /\ [][SplitNext]_vars

----------------------------------------------------------------------------
(* Properties of generate_split_output_parts *)

Returned == pc = "returned"
Raised == pc = "raised"
Finished == Returned \/ Raised

\* the first path segment, read off the path itself: what precedes its
\* first separator
FirstSegment(path) ==
    LET seps == {i \in 1..Len(path) : path[i] = "/" \/ path[i] = "\\"}
    IN  IF seps = {} THEN path
        ELSE SubSeq(path, 1, (CHOOSE i \in seps : \A j \in seps : i <= j) - 1)

HasToken(content, c) == \E i \in 1..Len(content) : content[i] = c

\* the groups of the returned parts, in part order
ReturnedGroups == Flatten([k \in 1..Len(result[1]) |-> result[1][k].groups])

\* the returned parts one of whose groups holds the processed file
PartsHolding(f) ==
    {k \in 1..Len(result[1]) :
        \E n \in 1..Len(result[1][k].groups) :
            \E m \in 1..Len(result[1][k].groups[n].processed_files) :
                result[1][k].groups[n].processed_files[m] = f}

\* C1: every returned part's content is at most max_bytes_per_part bytes of
\* UTF-8, and so is its recorded byte_length; no larger part is returned.
C1_ByteBound ==
    Returned =>
        \A k \in 1..Len(result[1]) :
            /\ EncodedLength(result[1][k].content) <= max_bytes_per_part
            /\ result[1][k].byte_length <= max_bytes_per_part

\* a split into several parts, one of them exactly as large as the limit
\* and holding a character of three bytes
C1_Witness ==
    /\ Returned
    /\ Len(result[1]) >= 2
    /\ \E k \in 1..Len(result[1]) :
           /\ EncodedLength(result[1][k].content) = max_bytes_per_part
           /\ HasToken(result[1][k].content, "u3")

\* C2: processed files with the same first path segment are in one and the
\* same returned part, and no root entry occurs in two parts.
C2_AtomicGroups ==
    Returned =>
        /\ \A i, j \in 1..Len(processed_files) :
               FirstSegment(processed_files[i].path)
                   = FirstSegment(processed_files[j].path)
               => /\ PartsHolding(processed_files[i])
                       = PartsHolding(processed_files[j])
                  /\ Cardinality(PartsHolding(processed_files[i])) = 1
        /\ \A m, n \in 1..Len(ReturnedGroups) :
               m # n => ReturnedGroups[m].root_entry # ReturnedGroups[n].root_entry

\* two processed files of one root entry, returned in a split of several parts
C2_Witness ==
    /\ Returned
    /\ Len(result[1]) >= 2
    /\ \E i, j \in 1..Len(processed_files) :
           /\ i # j
           /\ FirstSegment(processed_files[i].path)
                  = FirstSegment(processed_files[j].path)

RootsOf(paths) == {FirstSegment(paths[i]) : i \in 1..Len(paths)}

\* the group list is ascending by root entry, each root once
AscendingRoots(gs) ==
    \A m, n \in 1..Len(gs) : m < n => StrLess(gs[m].root_entry, gs[n].root_entry)

\* every processed file is in the group of its root entry, once, and in no
\* other group
EachFileOnce(gs) ==
    \A i \in 1..Len(processed_files) :
        \A n \in 1..Len(gs) :
            Cardinality({m \in 1..Len(gs[n].processed_files) :
                             gs[n].processed_files[m] = processed_files[i]})
                = IF gs[n].root_entry = FirstSegment(processed_files[i].path)
                  THEN 1 ELSE 0

\* C3 as stated: the returned group lists, concatenated in part order, are
\* one group per first path segment of the candidate paths, ascending, each
\* once.
C3_GroupsOfCandidates ==
    Returned =>
        /\ {ReturnedGroups[n].root_entry : n \in 1..Len(ReturnedGroups)}
               = RootsOf(all_file_paths)
        /\ AscendingRoots(ReturnedGroups)
        /\ EachFileOnce(ReturnedGroups)

\* C3, amended: the returned group lists, concatenated in part order, are
\* one group per first path segment of the candidate paths and of the
\* processed files' paths, ascending, each once, and every processed file is
\* in exactly one of them.
C3_GroupsOfAllPaths ==
    Returned =>
        /\ {ReturnedGroups[n].root_entry : n \in 1..Len(ReturnedGroups)}
               = RootsOf(all_file_paths) \cup RootsOf(PathsOf(processed_files))
        /\ AscendingRoots(ReturnedGroups)
        /\ EachFileOnce(ReturnedGroups)

\* a split of three groups given out of order, one of them of a candidate
\* path that was not processed
C3_Witness ==
    /\ Returned
    /\ Len(result[1]) >= 2
    /\ Len(ReturnedGroups) >= 3
    /\ RootsOf(all_file_paths) # RootsOf(PathsOf(processed_files))
    /\ \E i, j \in 1..Len(processed_files) :
           i < j /\ StrLess(FirstSegment(processed_files[j].path),
                            FirstSegment(processed_files[i].path))

\* the bytes of a group rendered alone as a part of its own: the first
\* group of the ordering as part 1, a later group as a later part
AloneBytes(n) ==
    EncodedLength(render_groups(<<groups[1][n]>>, IF n = 1 THEN 1 ELSE 2))
Oversized == {n \in 1..Len(groups[1]) : AloneBytes(n) > max_bytes_per_part}
FirstOversized == CHOOSE n \in Oversized : \A m \in Oversized : n <= m

\* C4: when a group rendered alone exceeds the limit, wherever it is in the
\* ordering, the call ends in a size error, which names the first such group
\* and gives its size and the limit, and nothing is returned; there is no
\* size error otherwise.
C4_GroupTooLarge ==
    (Finished /\ groups # None) =>
        IF Oversized # {}
        THEN /\ Raised
             /\ result = None
             /\ error = Some([kind |-> "exceeds max size",
                              root_entry |-> groups[1][FirstOversized].root_entry,
                              size |-> AloneBytes(FirstOversized),
                              limit |-> max_bytes_per_part])
        ELSE Returned /\ error = None

\* a size error for a group that is not the first, after a part was filled
C4_Witness ==
    /\ Raised
    /\ groups # None
    /\ parts # <<>>
    /\ FirstOversized > 1
    /\ error[1].root_entry = groups[1][FirstOversized].root_entry

\* C5: with max_bytes_per_part <= 0 the call ends in the invalid-limit
\* error with no grouping done and the renderer never called, whatever the
\* files.
C5_InvalidLimitFirst ==
    (max_bytes_per_part <= 0 /\ pc # "start") =>
        /\ Raised
        /\ error = Some([kind |-> "Invalid max_bytes_per_part",
                         root_entry |-> <<>>, size |-> 0,
                         limit |-> max_bytes_per_part])
        /\ groups = None
        /\ renders = {}
        /\ parts = <<>>
        /\ result = None

\* the invalid-limit error for limit 0 and an empty file set
C5_Witness ==
    /\ Raised
    /\ max_bytes_per_part = 0
    /\ processed_files = <<>>
    /\ all_file_paths = <<>>
    /\ error[1].kind = "Invalid max_bytes_per_part"

\* C6 as stated: with no processed files and a positive limit the call
\* returns the empty part list, whatever the candidate paths.
C6_NoFilesNoParts ==
    (Finished /\ processed_files = <<>> /\ max_bytes_per_part > 0) =>
        Returned /\ result = Some(<<>>)

\* C6, amended: with no processed files, no candidate paths and a positive
\* limit the call returns the empty part list without rendering; with a
\* candidate path there is a group, and the call returns a part or raises.
C6_NoPathsNoParts ==
    (Finished /\ processed_files = <<>> /\ max_bytes_per_part > 0) =>
        IF all_file_paths = <<>>
        THEN Returned /\ result = Some(<<>>) /\ renders = {}
        ELSE result # Some(<<>>) /\ renders # {}

\* the empty part list returned for no files and no candidate paths
C6_Witness ==
    /\ Returned
    /\ processed_files = <<>>
    /\ all_file_paths = <<>>
    /\ max_bytes_per_part > 0
    /\ result = Some(<<>>)

\* C7: every call of the renderer for a part index above 1 has include_diffs
\* and include_logs off and no diff or log result, and the content of every
\* part with index above 1 has no diff and no log section.
C7_VcsOnlyInFirstPart ==
    /\ \A r \in renders :
           r.part_index > 1 =>
               /\ ~r.config.include_diffs
               /\ ~r.config.include_logs
               /\ r.git_diff_result = None
               /\ r.git_log_result = None
    /\ \A k \in 1..Len(parts) :
           parts[k].index > 1 =>
               ~HasToken(parts[k].content, "D") /\ ~HasToken(parts[k].content, "L")

\* a returned split whose first part has the diff and the log section and
\* which has a second part
C7_Witness ==
    /\ Returned
    /\ Len(result[1]) >= 2
    /\ base_config.include_diffs
    /\ base_config.include_logs
    /\ HasToken(result[1][1].content, "D")
    /\ HasToken(result[1][1].content, "L")
    /\ \E r \in renders : r.part_index > 1

\* C24: a group starts a new part only if it did not fit in the current
\* one: for every returned part but the last, the render of its groups
\* together with the first group of the next part, at its own index, is
\* larger than the limit.
C24_NewPartOnlyWhenFull ==
    Returned =>
        \A k \in 1..(Len(result[1]) - 1) :
            get_utf8_byte_length(
                render_groups(Append(result[1][k].groups, result[1][k + 1].groups[1]),
                              result[1][k].index)) > max_bytes_per_part

\* three parts, of which one holds two groups, and a part that fills the
\* limit to the byte
C24_Witness ==
    /\ Returned
    /\ Len(result[1]) >= 2
    /\ \E k \in 1..Len(result[1]) : Len(result[1][k].groups) >= 2
    /\ \E k \in 1..Len(result[1]) : result[1][k].byte_length = max_bytes_per_part

\* C25: the current content, byte count and group list of the planner come
\* from one render at every step of its loop, and every returned part's
\* content is the render of its own groups at its own index, with the UTF-8
\* length of that content as its byte_length.
C25_PartIsItsOwnRender ==
    /\ (pc = "loop" /\ current_groups # <<>>) =>
           /\ current_content = render_groups(current_groups, Len(parts) + 1)
           /\ current_bytes = EncodedLength(current_content)
    /\ \A k \in 1..Len(parts) :
           /\ parts[k].content = render_groups(parts[k].groups, parts[k].index)
           /\ parts[k].byte_length = EncodedLength(parts[k].content)
    /\ Returned =>
           \A k \in 1..Len(result[1]) :
               /\ result[1][k].index = k
               /\ result[1][k].content = render_groups(result[1][k].groups, k)
               /\ result[1][k].byte_length = EncodedLength(result[1][k].content)

\* a second part that was started by a group alone and then grew, with a
\* multi-byte character, after a first part with the VCS blocks
C25_Witness ==
    /\ Returned
    /\ Len(result[1]) >= 2
    /\ Len(result[1][2].groups) >= 2
    /\ HasToken(result[1][1].content, "D")
    /\ \E k \in 1..Len(result[1]) : HasToken(result[1][k].content, "u3")
    /\ result[1][2].byte_length > Len(result[1][2].content)

\* a file name's extension: from its last dot, when that dot is neither the
\* first nor the last character of the name
ExtensionOf(path) ==
    LET slashes == {i \in 1..Len(path) : path[i] = "/"}
        start == IF slashes = {} THEN 1
                 ELSE (CHOOSE i \in slashes : \A j \in slashes : j <= i) + 1
        dots == {i \in start..Len(path) : path[i] = "."}
        last == CHOOSE i \in dots : \A j \in dots : j <= i
    IN  IF dots = {} \/ last = start \/ last = Len(path) THEN <<>>
        ELSE SubSeq(path, last, Len(path))

\* the path with the index put before its extension, or appended
WithIndex(path, k) ==
    SubSeq(path, 1, Len(path) - Len(ExtensionOf(path)))
        \o <<".", ToString(k)>> \o ExtensionOf(path)

----------------------------------------------------------------------------
(* repo_processor.py: RepoProcessor.process and write_output, for a local   *)
(* directory                                                               *)

\* the value of self_config.output.split_output: None or a byte count
SplitOutputs == {None} \cup {Some(l) : l \in Limits}

\* the files a run collects: distinct paths
RawFileLists ==
    { fs \in UNION { [1..n -> FilePool] : n \in 0..MaxRepoFiles } :
          \A i, j \in 1..Len(fs) : i # j => fs[i] # fs[j] }

ProcInit ==
    /\ self_config \in [file_path : {<<"o", ".", "m">>},
                        include_diffs : {FALSE}, include_logs : {FALSE},
                        include_full_directory_structure : {FALSE},
                        split_output : SplitOutputs, stdout : BOOLEAN]
    /\ raw_files \in RawFileLists
    /\ suspicious_file_paths \in
           {{}} \cup {{raw_files[i].path} : i \in 1..Len(raw_files)}
    /\ write_output \in BOOLEAN
    /\ proc_pc = "start"
    /\ output_content = <<>>
    /\ proc_error = None
    /\ written = {}
    /\ printed = <<>>
    /\ SplitIdle
    /\ ConfigIdle
    /\ CliIdle
    /\ ActionIdle
    /\ RemoteIdle
    /\ CollectIdle
    /\ TreeIdle
    /\ GenIdle
    /\ WalkIdle

\* lines 325-326
ProcessRaiseNoFiles ==
    /\ proc_pc = "start"
    /\ raw_files = <<>>
    /\ proc_error' = Some("No files found.")
    /\ proc_pc' = "raised"
    /\ UNCHANGED <<collectVars, remoteVars, actionVars, cliVars, configVars, splitVars, treeVars, genVars, walkVars, procArgs, output_content, written, printed>>

\* lines 328-370: the files minus the suspicious ones are rendered by one
\* call of generate_output
ProcessGenerateOutput ==
    /\ proc_pc = "start"
    /\ raw_files # <<>>
    /\ output_content' =
           generate_output(
               SelectSeq(raw_files, LAMBDA f : f.path \notin suspicious_file_paths),
               self_config, build_filtered_file_tree(raw_files), None, None)
    /\ proc_pc' = "generated"
    /\ UNCHANGED <<collectVars, remoteVars, actionVars, cliVars, configVars, splitVars, treeVars, genVars, walkVars, procArgs, proc_error, written, printed>>

\* lines 372-385 and 428-443: write_output(output_content), then return
ProcessWriteOutput ==
    /\ proc_pc = "generated"
    /\ write_output
    /\ IF self_config.stdout
       THEN /\ printed' = Append(printed, output_content)
            /\ UNCHANGED written
       ELSE /\ written' = {w \in written : w.path # self_config.file_path}
                              \cup {[path |-> self_config.file_path,
                                     content |-> output_content]}
            /\ UNCHANGED printed
    /\ proc_pc' = "returned"
    /\ UNCHANGED <<collectVars, remoteVars, actionVars, cliVars, configVars, splitVars, treeVars, genVars, walkVars, procArgs, output_content, proc_error>>

\* lines 372-385 with write_output false
ProcessReturn ==
    /\ proc_pc = "generated"
    /\ ~write_output
    /\ proc_pc' = "returned"
    /\ UNCHANGED <<collectVars, remoteVars, actionVars, cliVars, configVars, splitVars, treeVars, genVars, walkVars, procArgs, output_content, proc_error,
                   written, printed>>

ProcNext ==
    \/ ProcessRaiseNoFiles
    \/ ProcessGenerateOutput
    \/ ProcessWriteOutput
    \/ ProcessReturn

ProcSpec == ProcInit /\ [][ProcNext]_vars

\* C9: when config.output.split_output is a positive limit, what process
\* has written is several outputs none of which exceeds the limit: no
\* written output is larger than the limit.
C9_WrittenWithinSplitLimit ==
    (proc_pc = "returned" /\ self_config.split_output # None
                          /\ self_config.split_output[1] > 0) =>
        \A w \in written : EncodedLength(w.content) <= self_config.split_output[1]

----------------------------------------------------------------------------
(* token_count_tree.py *)

\* The tree is the function from each node's list of directory names from
\* the root (the root is <<>>) to the node's files and token_sum; a node's
\* children are the nodes one name longer.
NewTreeNode == [files |-> <<>>, token_sum |-> 0]

TreeChildren(t, p) ==
    {q \in DOMAIN t : Len(q) = Len(p) + 1 /\ SubSeq(q, 1, Len(p)) = p}

\* lines 49-66: one turn of the loop over files_with_tokens
AddFileWithTokens(t, file) ==
    LET path_parts == StrSplit(StrReplace(file.path, "\\", "/"), "/")
        file_name == path_parts[Len(path_parts)]
        dirs == SubSeq(path_parts, 1, Len(path_parts) - 1)
        made == {SubSeq(dirs, 1, i) : i \in 1..Len(dirs)} \ DOMAIN t
        t1 == [p \in DOMAIN t \cup made |->
                   IF p \in DOMAIN t THEN t[p] ELSE NewTreeNode]
    IN  IF file.path = <<>> THEN t
        ELSE IF file_name = <<>> THEN t
        ELSE [t1 EXCEPT ![dirs].files =
                  Append(@, [name |-> file_name, tokens |-> file.tokens])]

RECURSIVE AddFilesWithTokens(_, _)
AddFilesWithTokens(t, files) ==
    IF files = <<>> THEN t
    ELSE AddFilesWithTokens(AddFileWithTokens(t, Head(files)), Tail(files))

RECURSIVE SumFileTokens(_)
\* sum(f.tokens for f in node.files)
SumFileTokens(files) ==
    IF files = <<>> THEN 0 ELSE Head(files).tokens + SumFileTokens(Tail(files))

RECURSIVE ReturnedTokenSum(_, _)
RECURSIVE SumReturned(_, _)
\* lines 89-90: the sum of what _calculate_token_sums returns for the
\* nodes of ps
SumReturned(t, ps) ==
    IF ps = {} THEN 0
    ELSE LET q == CHOOSE q \in ps : TRUE
         IN  ReturnedTokenSum(t, q) + SumReturned(t, ps \ {q})

\* a mutant of ReturnedTokenSum: the subdirectories are left out
ReturnedTokenSumOwnFiles(t, p) == SumFileTokens(t[p].files)

\* _calculate_token_sums(node): the total it returns and stores
ReturnedTokenSum(t, p) ==
    SumFileTokens(t[p].files) + SumReturned(t, TreeChildren(t, p))

\* _calculate_token_sums(root): every node's token_sum is set to its total
calculate_token_sums(t) ==
    [p \in DOMAIN t |-> [t[p] EXCEPT !.token_sum = ReturnedTokenSum(t, p)]]

build_token_count_tree(files) ==
    calculate_token_sums(AddFilesWithTokens(<<>> :> NewTreeNode, files))

RECURSIVE SortedNames(_)
\* line 122: the names of a set in ascending order
SortedNames(names) ==
    IF names = {} THEN <<>>
    ELSE LET least == CHOOSE n \in names : \A o \in names \ {n} : StrLess(n, o)
         IN  <<least>> \o SortedNames(names \ {least})

RECURSIVE SortedByName(_)
\* line 123: list.sort(key=name) is stable, equal names keep their order
SortedByName(files) ==
    IF files = <<>> THEN <<>>
    ELSE LET before == SortedByName(SubSeq(files, 1, Len(files) - 1))
             f == files[Len(files)]
             k == Cardinality({i \in 1..Len(before) : ~StrLess(f.name, before[i].name)})
         IN  SubSeq(before, 1, k) \o <<f>> \o SubSeq(before, k + 1, Len(before))

\* a mutant of ShownFiles: a file must have more tokens than the threshold
ShownFilesAbove(files, threshold) ==
    SelectSeq(files, LAMBDA f : f.tokens > threshold)

\* line 119
ShownFiles(files, threshold) ==
    SelectSeq(files, LAMBDA f : f.tokens >= threshold)

\* line 116
ShownEntries(t, p, threshold) ==
    {q \in TreeChildren(t, p) : t[q].token_sum >= threshold}

RECURSIVE FormatEntries(_, _, _, _)
RECURSIVE FormatNode(_, _, _, _, _)
\* lines 137-155: the lines of the directories qs (in order) of one node and
\* of what is below them; a prefix is the list of its indentation steps
FormatEntries(t, qs, threshold, prefix) ==
    IF qs = <<>> THEN <<>>
    ELSE LET q == Head(qs)
             is_last_entry == Len(qs) = 1
             child_prefix == Append(prefix, IF is_last_entry THEN "    " ELSE "|   ")
         IN  << [kind |-> "dir", prefix |-> prefix, last |-> is_last_entry,
                 name |-> q[Len(q)], tokens |-> t[q].token_sum] >>
                 \o FormatNode(t, q, threshold, child_prefix, FALSE)
                 \o FormatEntries(t, Tail(qs), threshold, prefix)

\* format_token_count_tree(node, min_token_count, prefix, is_root), as the
\* list of the lines it joins
FormatNode(t, p, threshold, prefix, is_root) ==
    LET files == SortedByName(ShownFiles(t[p].files, threshold))
        shown == ShownEntries(t, p, threshold)
        entries == SortedNames({q[Len(q)] : q \in shown})
        file_lines == [i \in 1..Len(files) |->
                          [kind |-> "file", prefix |-> prefix,
                           last |-> (i = Len(files) /\ entries = <<>>),
                           name |-> files[i].name, tokens |-> files[i].tokens]]
        entry_lines == FormatEntries(t, [i \in 1..Len(entries) |-> Append(p, entries[i])],
                                     threshold, prefix)
        message == [kind |-> "message", prefix |-> <<>>, last |-> TRUE,
                    name |-> IF threshold > 0
                             THEN <<"No files or directories found with N+ tokens.">>
                             ELSE <<"No files found.">>,
                    tokens |-> threshold]
    IN  file_lines \o entry_lines
            \o (IF is_root /\ files = <<>> /\ entries = <<>> THEN <<message>> ELSE <<>>)

format_token_count_tree(t, threshold) == FormatNode(t, <<>>, threshold, <<>>, TRUE)

\* lines 183-189: config.output.token_count_tree is a bool, an int or a
\* str; a bool is an int to isinstance, True counting as 1 and False as 0,
\* and a str of digits is converted
ThresholdOf(token_count_tree) ==
    CASE token_count_tree.type \in {"bool", "int"} -> token_count_tree.value
      [] token_count_tree.type = "str" /\ token_count_tree.digits -> token_count_tree.value
      [] OTHER -> 0

\* lines 192-196: the processed files that have a token count
CountedFiles(paths, counts) ==
    LET counted == SelectSeq(paths, LAMBDA q : q \in DOMAIN counts)
    IN  [i \in 1..Len(counted) |-> [path |-> counted[i], tokens |-> counts[counted[i]]]]

\* lines 202-208: the lines of the report
report_token_count_tree(paths, counts, token_count_tree) ==
    LET threshold == ThresholdOf(token_count_tree)
        built == build_token_count_tree(CountedFiles(paths, counts))
        line(kind, n) == [kind |-> kind, prefix |-> <<>>, last |-> FALSE,
                          name |-> <<>>, tokens |-> n]
    IN  << line("title", 0), line("rule", 0) >>
            \o (IF threshold > 0 THEN << line("showing", threshold) >> ELSE <<>>)
            \o format_token_count_tree(built, threshold)

\* entries with and without tokens, at the root, in a directory, below it
\* and with a backslash; and the entries line 49 and line 55 skip
FileWithTokensPool ==
    { [path |-> q, tokens |-> n] :
          q \in { <<"x">>, <<"a", "/", "x">>, <<"a", "/", "b", "/", "y">>,
                  <<"a", "\\", "y">> },
          n \in {0, 2} }
        \cup { [path |-> <<"a", "/">>, tokens |-> 2], [path |-> <<>>, tokens |-> 2] }

\* the thresholds handed to format_token_count_tree
Thresholds == 0..MaxThreshold

\* the values of config.output.token_count_tree: False (the default), True
\* (--token-count-tree without a value), an int, a str of digits (the
\* value given on the command line) and another str
TokenCountTreeConfigs ==
    { [type |-> "bool", value |-> 0, digits |-> FALSE],
      [type |-> "bool", value |-> 1, digits |-> FALSE],
      [type |-> "int", value |-> 0, digits |-> TRUE],
      [type |-> "int", value |-> 2, digits |-> TRUE],
      [type |-> "str", value |-> 2, digits |-> TRUE],
      [type |-> "str", value |-> 0, digits |-> FALSE] }

\* the token counts by path that go with a list of entries: the count of
\* the last entry of each path, without the paths that have none
CountsOf(files, uncounted) ==
    [q \in {files[i].path : i \in 1..Len(files)} \ uncounted |->
        LET k == CHOOSE k \in 1..Len(files) :
                     /\ files[k].path = q
                     /\ \A j \in (k + 1)..Len(files) : files[j].path # q
        IN  files[k].tokens]

TreeInit ==
    /\ files_with_tokens \in
           UNION { [1..n -> FileWithTokensPool] : n \in 0..MaxTreeFiles }
    /\ token_count_tree_config = [type |-> "bool", value |-> 0, digits |-> FALSE]
    /\ file_token_counts = <<>>
    /\ tree_pc = "start"
    /\ tree_root = <<>>
    /\ min_token_count = 0
    /\ tree_listing = <<>>
    /\ tree_report = <<>>
    /\ SplitIdle
    /\ ProcIdle
    /\ ConfigIdle
    /\ CliIdle
    /\ ActionIdle
    /\ RemoteIdle
    /\ CollectIdle
    /\ GenIdle
    /\ WalkIdle

\* lines 37-71
BuildTokenCountTree ==
    /\ tree_pc = "start"
    /\ tree_root' = build_token_count_tree(files_with_tokens)
    /\ tree_pc' = "built"
    /\ UNCHANGED <<collectVars, remoteVars, actionVars, cliVars, configVars, splitVars, procVars, genVars, walkVars, treeArgs, min_token_count, tree_listing,
                   tree_report>>

\* lines 96-164: the lists of lines 116 and 119 are new lists, sorting them
\* leaves node.files and node.children as they are, and no field of a node
\* is assigned
FormatTokenCountTree ==
    /\ tree_pc = "built"
    /\ \E threshold \in Thresholds :
           /\ min_token_count' = threshold
           /\ tree_listing' = format_token_count_tree(tree_root, threshold)
    /\ tree_root' = tree_root
    /\ tree_pc' = "formatted"
    /\ UNCHANGED <<collectVars, remoteVars, actionVars, cliVars, configVars, splitVars, procVars, genVars, walkVars, treeArgs, tree_report>>

\* lines 167-210, for the paths of files_with_tokens as the processed files
ReportTokenCountTree ==
    /\ tree_pc = "start"
    /\ \E cfg \in TokenCountTreeConfigs,
          uncounted \in (IF files_with_tokens = <<>> THEN {{}}
                         ELSE {{}, {files_with_tokens[1].path}}) :
           /\ token_count_tree_config' = cfg
           /\ file_token_counts' = CountsOf(files_with_tokens, uncounted)
           /\ min_token_count' = ThresholdOf(cfg)
           /\ tree_root' = build_token_count_tree(
                               CountedFiles(PathsOf(files_with_tokens), file_token_counts'))
           /\ tree_listing' = format_token_count_tree(tree_root', min_token_count')
           /\ tree_report' = report_token_count_tree(PathsOf(files_with_tokens),
                                                     file_token_counts', cfg)
    /\ tree_pc' = "reported"
    /\ UNCHANGED <<collectVars, remoteVars, actionVars, cliVars, configVars, splitVars, procVars, genVars, walkVars, files_with_tokens>>

TreeNext ==
    \/ BuildTokenCountTree
    \/ FormatTokenCountTree
    \/ ReportTokenCountTree

TreeSpec == TreeInit /\ [][TreeNext]_vars

\* the sum of the stored token_sum of the nodes of ps
RECURSIVE SumStored(_, _)
SumStored(t, ps) ==
    IF ps = {} THEN 0
    ELSE LET q == CHOOSE q \in ps : TRUE
         IN  t[q].token_sum + SumStored(t, ps \ {q})

\* C10: in the tree build_token_count_tree returns, every node's token_sum
\* is the sum of the token counts of its own files plus the sum of the
\* token_sum of its child nodes.
C10_TokenSums ==
    tree_pc = "built" =>
        \A p \in DOMAIN tree_root :
            tree_root[p].token_sum
                = SumFileTokens(tree_root[p].files) + SumStored(tree_root, TreeChildren(tree_root, p))

\* a tree with a directory that has a file of its own with tokens and a
\* subdirectory with tokens, two levels below the root
C10_Witness ==
    /\ tree_pc = "built"
    /\ \E p \in DOMAIN tree_root :
           /\ Len(p) = 1
           /\ SumFileTokens(tree_root[p].files) > 0
           /\ \E q \in TreeChildren(tree_root, p) : tree_root[q].token_sum > 0
           /\ tree_root[<<>>].token_sum > tree_root[p].token_sum

\* the lines of a listing that show a file or a directory
EntryLines(listing) == SelectSeq(listing, LAMBDA l : l.kind \in {"file", "dir"})

\* the file f of the node p has a line, at the node's depth
FileListed(listing, p, f) ==
    \E i \in 1..Len(listing) :
        /\ listing[i].kind = "file"
        /\ listing[i].name = f.name
        /\ listing[i].tokens = f.tokens
        /\ Len(listing[i].prefix) = Len(p)

\* the directory p of the tree t has a line, at its parent's depth
DirectoryListed(listing, t, p) ==
    \E i \in 1..Len(listing) :
        /\ listing[i].kind = "dir"
        /\ listing[i].name = p[Len(p)]
        /\ listing[i].tokens = t[p].token_sum
        /\ Len(listing[i].prefix) = Len(p) - 1

RECURSIVE CountFiles(_, _)
\* the number of files of the nodes ps
CountFiles(t, ps) ==
    IF ps = {} THEN 0
    ELSE LET q == CHOOSE q \in ps : TRUE
         IN  Len(t[q].files) + CountFiles(t, ps \ {q})

\* every file and every directory of the tree t has its line in the listing,
\* and the listing has no other entry
AllListed(listing, t) ==
    /\ \A p \in DOMAIN t :
           /\ p # <<>> => DirectoryListed(listing, t, p)
           /\ \A k \in 1..Len(t[p].files) : FileListed(listing, p, t[p].files[k])
    /\ Len(EntryLines(listing)) = CountFiles(t, DOMAIN t) + Cardinality(DOMAIN t) - 1

\* C11: after format_token_count_tree, whatever the threshold, the tree is
\* the tree that was built (every node's files, children and token_sum are
\* as before), and with threshold 0 and non-negative token counts every file
\* and every directory of the tree has a line in the listing.
C11_FormatOnlyHides ==
    tree_pc = "formatted" =>
        /\ tree_root = build_token_count_tree(files_with_tokens)
        /\ min_token_count = 0 => AllListed(tree_listing, tree_root)

\* a listing at threshold 0 of a tree with a file of 0 tokens in a
\* directory of 0 tokens next to a file with tokens, and a listing at a
\* positive threshold would hide them
C11_Witness ==
    /\ tree_pc = "formatted"
    /\ min_token_count = 0
    /\ \E p \in DOMAIN tree_root :
           /\ p # <<>>
           /\ tree_root[p].token_sum = 0
           /\ tree_root[p].files # <<>>
           /\ Len(format_token_count_tree(tree_root, 1)) < Len(tree_listing)
    /\ tree_root[<<>>].token_sum > 0
    /\ Len(tree_listing) >= 3

\* C12: when config.output.token_count_tree is the boolean True, the report
\* lists every processed file that has a token count, files with 0 tokens
\* included, and has no "Showing entries with N+ tokens" line.
C12_TrueMeansNoThreshold ==
    (tree_pc = "reported" /\ token_count_tree_config.type = "bool"
                          /\ token_count_tree_config.value = 1) =>
        /\ AllListed(tree_listing, tree_root)
        /\ \A i \in 1..Len(tree_report) : tree_report[i].kind # "showing"

----------------------------------------------------------------------------
(* output_generate.py and json_style.py: the document generate_output       *)
(* returns.  A document is the record of its sections, each None when it   *)
(* is left out.                                                            *)

RECURSIVE SumValues(_, _)
\* sum(counts.values()) over the keys given
SumValues(counts, keys) ==
    IF keys = {} THEN 0
    ELSE LET k == CHOOSE k \in keys : TRUE
         IN  counts[k] + SumValues(counts, keys \ {k})

\* line 68
total_chars(char_counts) == SumValues(char_counts, DOMAIN char_counts)

\* line 69
total_tokens(config, token_counts) ==
    IF config.calculate_tokens THEN SumValues(token_counts, DOMAIN token_counts) ELSE 0

\* a mutant of display_tree: the tree passed in is always displayed
display_tree_passed(files, config, file_tree) == file_tree

\* lines 72-77
display_tree(files, config, file_tree) ==
    IF config.include_full_directory_structure
    THEN file_tree
    ELSE build_filtered_file_tree(files)

\* the files section of a style: one entry per file, left out when the
\* configuration disables file contents
style_files_section(files, config) ==
    IF config.files
    THEN Some([i \in 1..Len(files) |-> [path |-> files[i].path, content |-> files[i].content]])
    ELSE None

\* the statistics section of a style
style_statistics(total_files, chars, tokens) ==
    Some([total_files |-> total_files, total_chars |-> chars, total_tokens |-> tokens])

\* lines 94-128: the sections of a style other than JSON
generate_styled_output(files, config, char_counts, token_counts, file_tree, diff_result, log_result) ==
    [fileSummary |-> Some("header"),
     directoryStructure |->
         IF config.show_directory_structure
         THEN Some(display_tree(files, config, file_tree)) ELSE None,
     files |-> style_files_section(files, config),
     gitDiffs |-> IF config.include_diffs /\ diff_result # None
                  THEN diff_result ELSE None,
     gitLogs |-> IF config.include_logs /\ log_result # None
                 THEN log_result ELSE None,
     statistics |-> style_statistics(Len(files), total_chars(char_counts),
                                     total_tokens(config, token_counts))]

\* json_style.py lines 49-58: the parameters of generate_json_output
JsonOutputParameters ==
    {"files", "file_char_counts", "file_token_counts", "file_tree",
     "total_files", "total_chars", "total_tokens"}

\* output_generate.py lines 82-92: the keyword arguments of the call
JsonOutputArguments ==
    {"files", "file_char_counts", "file_token_counts", "file_tree",
     "total_files", "total_chars", "total_tokens",
     "git_diff_result", "git_log_result"}

\* json_style.py lines 73-111: the keys of the object that is serialized
generate_json_output(files, config, char_counts, token_counts, file_tree, total_files, chars, tokens) ==
    [fileSummary |-> Some("header"),
     directoryStructure |->
         IF config.show_directory_structure THEN Some(file_tree) ELSE None,
     files |-> Some([i \in 1..Len(files) |->
                        [path |-> files[i].path, content |-> files[i].content]]),
     gitDiffs |-> None,
     gitLogs |-> None,
     statistics |-> Some([total_files |-> total_files, total_chars |-> chars,
                          total_tokens |-> tokens])]

\* repo_processor.py lines 335-352: the counts process computes for every
\* processed file; the tokenizer is an injected integer per content
TokenCount(content) == Len(content) + 1
CharCountsOf(files) ==
    [q \in {files[i].path : i \in 1..Len(files)} |->
        LET k == CHOOSE k \in 1..Len(files) : files[k].path = q
        IN  Len(files[k].content)]
TokenCountsOf(files, config) ==
    [q \in {files[i].path : i \in 1..Len(files)} |->
        LET k == CHOOSE k \in 1..Len(files) : files[k].path = q
        IN  IF config.calculate_tokens THEN TokenCount(files[k].content) ELSE 0]

\* a list without its i-th element
Without(fs, i) == SubSeq(fs, 1, i - 1) \o SubSeq(fs, i + 1, Len(fs))

\* the files of one call, out of the processed files of the run: all of
\* them, or all but the one the security check finds (repo_processor.py
\* lines 355-362) or that belongs to another part (output_split.py lines
\* 177-196); the counts passed are those of all the files in each case
RenderedLists(all_files) ==
    {all_files} \cup {Without(all_files, i) : i \in 1..Len(all_files)}

\* the tree of the directory: the processed files and an entry that was not
\* processed
DirectoryTreeOf(all_files) ==
    build_filtered_file_tree(all_files) \cup {[parts |-> << <<"z">> >>, leaf |-> TRUE]}

GenConfigs ==
    { c \in [style : {"markdown", "json"}, show_directory_structure : BOOLEAN,
             files : BOOLEAN, show_file_stats : {FALSE},
             calculate_tokens : BOOLEAN,
             include_full_directory_structure : BOOLEAN,
             include_diffs : BOOLEAN, include_logs : BOOLEAN] :
          c.include_logs = c.include_diffs }

GenInit ==
    /\ gen_all_files \in ProcessedLists
    /\ gen_config \in GenConfigs
    /\ gen_char_counts = CharCountsOf(gen_all_files)
    /\ gen_token_counts = TokenCountsOf(gen_all_files, gen_config)
    /\ gen_files \in RenderedLists(gen_all_files)
    /\ gen_file_tree = DirectoryTreeOf(gen_all_files)
    /\ \E r \in GitResults : gen_diff_result = r[1] /\ gen_log_result = r[2]
    /\ gen_pc = "start"
    /\ gen_output = None
    /\ gen_error = None
    /\ SplitIdle
    /\ ProcIdle
    /\ ConfigIdle
    /\ CliIdle
    /\ ActionIdle
    /\ RemoteIdle
    /\ CollectIdle
    /\ TreeIdle
    /\ WalkIdle

\* lines 67-92: the JSON style; a call with a keyword argument that the
\* callee has no parameter for raises TypeError
GenerateJsonOutput ==
    /\ gen_pc = "start"
    /\ gen_config.style = "json"
    /\ IF JsonOutputArguments \subseteq JsonOutputParameters
       THEN /\ gen_output' =
                   Some(generate_json_output(
                            gen_files, gen_config, gen_char_counts, gen_token_counts,
                            display_tree(gen_files, gen_config, gen_file_tree),
                            Len(gen_files), total_chars(gen_char_counts),
                            total_tokens(gen_config, gen_token_counts)))
            /\ gen_pc' = "returned"
            /\ UNCHANGED gen_error
       ELSE /\ gen_error' = Some("TypeError: unexpected keyword argument")
            /\ gen_pc' = "raised"
            /\ UNCHANGED gen_output
    /\ UNCHANGED <<collectVars, remoteVars, actionVars, cliVars, configVars, splitVars, procVars, treeVars, walkVars, genArgs>>

\* lines 67-77 and 94-128: the other styles
GenerateStyledOutput ==
    /\ gen_pc = "start"
    /\ gen_config.style # "json"
    /\ gen_output' =
           Some(generate_styled_output(gen_files, gen_config, gen_char_counts,
                                       gen_token_counts, gen_file_tree,
                                       gen_diff_result, gen_log_result))
    /\ gen_pc' = "returned"
    /\ UNCHANGED <<collectVars, remoteVars, actionVars, cliVars, configVars, splitVars, procVars, treeVars, walkVars, genArgs, gen_error>>

GenNext ==
    \/ GenerateJsonOutput
    \/ GenerateStyledOutput

GenSpec == GenInit /\ [][GenNext]_vars

\* the paths of the leaves of a tree
LeafPaths(tree) == {StrJoin(n.parts, "/") : n \in {m \in tree : m.leaf}}

C18_TotalsOfRenderedFiles ==
    (gen_pc = "returned" /\ gen_output[1].statistics # None) =>
        LET stats == gen_output[1].statistics[1]
            rendered == {gen_files[i].path : i \in 1..Len(gen_files)}
        IN  /\ stats.total_files = Len(gen_files)
            /\ stats.total_chars = SumValues(gen_char_counts, rendered)
            /\ stats.total_tokens = SumValues(gen_token_counts, rendered)

\* C19: with config.output.files false, generate_output returns a document
\* without a files section and without the content of any file, and with
\* the statistics section.
C19_NoFilesSection ==
    (gen_pc \in {"returned", "raised"} /\ ~gen_config.files) =>
        /\ gen_pc = "returned"
        /\ gen_output[1].files = None
        /\ gen_output[1].statistics # None

\* C20: in JSON style generate_output returns one object; it has the
\* gitDiffs entry exactly when a diff result is supplied and include_diffs
\* is on, and the gitLogs entry exactly when a log result is supplied and
\* include_logs is on.
C20_JsonGitEntries ==
    (gen_pc \in {"returned", "raised"} /\ gen_config.style = "json") =>
        /\ gen_pc = "returned"
        /\ gen_output[1].gitDiffs # None
               <=> (gen_diff_result # None /\ gen_config.include_diffs)
        /\ gen_output[1].gitLogs # None
               <=> (gen_log_result # None /\ gen_config.include_logs)

----------------------------------------------------------------------------
(* repo_processor.py: the two tree builders.  A directory on disk is the   *)
(* set of its entries, each the list of its names from the root and        *)
(* whether it is a directory; every directory can be read.  A tree (a dict *)
(* in insertion order) is the list of its nodes, a directory followed by   *)
(* the nodes below it.                                                     *)

\* str.lower for the characters used
Lower(c) == IF c = "F" THEN "f" ELSE c
StrLower(s) == [i \in 1..Len(s) |-> Lower(s[i])]

RECURSIVE StrStrip(_)
\* str.strip
StrStrip(s) ==
    IF s = <<>> THEN s
    ELSE IF Head(s) = " " THEN StrStrip(Tail(s))
    ELSE IF s[Len(s)] = " " THEN StrStrip(SubSeq(s, 1, Len(s) - 1))
    ELSE s

\* str.endswith
EndsWith(s, suffix) ==
    Len(s) >= Len(suffix) /\ SubSeq(s, Len(s) - Len(suffix) + 1, Len(s)) = suffix

RECURSIVE fnmatch(_, _)
\* fnmatch on a POSIX system for patterns of literal characters, "*" and
\* "?": "*" matches any run of characters, "/" included
fnmatch(name, pattern) ==
    IF pattern = <<>> THEN name = <<>>
    ELSE IF Head(pattern) = "*"
         THEN fnmatch(name, Tail(pattern))
                  \/ (name # <<>> /\ fnmatch(Tail(name), pattern))
    ELSE IF Head(pattern) = "?"
         THEN name # <<>> /\ fnmatch(Tail(name), Tail(pattern))
    ELSE name # <<>> /\ Head(name) = Head(pattern)
                     /\ fnmatch(Tail(name), Tail(pattern))

\* lines 83-99
common_ignores ==
    { <<"n", "o", "d", "e", "_", "m", "o", "d", "u", "l", "e", "s">>,
      <<".", "g", "i", "t">>,
      <<"_", "_", "p", "y", "c", "a", "c", "h", "e", "_", "_">>,
      <<".", "p", "y", "t", "e", "s", "t", "_", "c", "a", "c", "h", "e">>,
      <<"v", "e", "n", "v">>,
      <<".", "v", "e", "n", "v">>,
      <<"e", "n", "v">>,
      <<".", "e", "n", "v">>,
      <<"b", "u", "i", "l", "d">>,
      <<"d", "i", "s", "t">>,
      <<".", "i", "d", "e", "a">>,
      <<".", "v", "s", "c", "o", "d", "e">>,
      <<"l", "o", "g", "s">>,
      <<"t", "m", "p">>,
      <<"c", "a", "c", "h", "e">> }

\* line 107
CleanPattern(pattern) == StrStrip(StrReplace(pattern, "\\", "/"))

\* lines 112 and 116: no slash, no star, no bracket
PlainName(pattern) ==
    \A i \in 1..Len(pattern) : pattern[i] \notin {"/", "*", "["}

\* a mutant of dir_exact_matches: the common names are not added
dir_exact_matches_of_patterns(patterns) ==
    LET cleaned == {CleanPattern(q) : q \in patterns} \ {<<>>}
    IN  {q \in cleaned : PlainName(q)}
            \cup {SubSeq(q, 1, Len(q) - 1) :
                      q \in {r \in cleaned : ~PlainName(r) /\ r[Len(r)] = "/"
                                 /\ PlainName(SubSeq(r, 1, Len(r) - 1))}}

\* lines 102-126: the exact directory names to ignore
dir_exact_matches(patterns) ==
    LET cleaned == {CleanPattern(q) : q \in patterns} \ {<<>>}
    IN  {q \in cleaned : PlainName(q)}
            \cup {SubSeq(q, 1, Len(q) - 1) :
                      q \in {r \in cleaned : ~PlainName(r) /\ r[Len(r)] = "/"
                                 /\ PlainName(SubSeq(r, 1, Len(r) - 1))}}
            \cup common_ignores

\* lines 103-123: the patterns matched against a directory's relative path
dir_patterns(patterns) ==
    LET cleaned == {CleanPattern(q) : q \in patterns} \ {<<>>}
    IN  {SubSeq(q, 1, Len(q) - 1) :
             q \in {r \in cleaned : ~PlainName(r) /\ r[Len(r)] = "/"
                        /\ ~PlainName(SubSeq(r, 1, Len(r) - 1))}}
            \cup {q \in cleaned : ~PlainName(q) /\ q[Len(q)] # "/"}

\* lines 104-121: the patterns matched against a file's relative path
file_patterns(patterns) ==
    LET cleaned == {CleanPattern(q) : q \in patterns} \ {<<>>}
    IN  {q \in cleaned : ~PlainName(q) /\ q[Len(q)] # "/"}

\* path.relative_to(base_dir).as_posix()
RelPath(entry_parts) == StrJoin(entry_parts, "/")

\* directory.iterdir(): the entries of a directory, in the order in which
\* the filesystem gives their names
IterDir(entries, dir, enumeration) ==
    LET inside == {e \in entries : Len(e.parts) = Len(dir) + 1
                                     /\ SubSeq(e.parts, 1, Len(dir)) = dir}
        names == SelectSeq(enumeration,
                           LAMBDA n : \E e \in inside : e.parts[Len(e.parts)] = n)
    IN  [i \in 1..Len(names) |-> CHOOSE e \in inside : e.parts[Len(e.parts)] = names[i]]

\* line 56: the sort key (not is_dir, name.lower()) compared
SortKeyLess(a, b) ==
    \/ a.is_dir /\ ~b.is_dir
    \/ a.is_dir = b.is_dir
           /\ StrLess(StrLower(a.parts[Len(a.parts)]), StrLower(b.parts[Len(b.parts)]))

RECURSIVE SortedEntries(_)
\* line 56: sorted is stable, entries with equal keys keep their order
SortedEntries(listed) ==
    IF listed = <<>> THEN <<>>
    ELSE LET before == SortedEntries(SubSeq(listed, 1, Len(listed) - 1))
             e == listed[Len(listed)]
             k == Cardinality({i \in 1..Len(before) : ~SortKeyLess(e, before[i])})
         IN  SubSeq(before, 1, k) \o <<e>> \o SubSeq(before, k + 1, Len(before))

RECURSIVE FullTreeOf(_, _, _)
RECURSIVE build_full_tree_recursive(_, _, _)
\* lines 60-73: the nodes for the entries listed, in order
FullTreeOf(entries, listed, enumeration) ==
    IF listed = <<>> THEN <<>>
    ELSE LET e == Head(listed)
         IN  << [parts |-> e.parts, leaf |-> ~e.is_dir] >>
                 \o (IF e.is_dir
                     THEN build_full_tree_recursive(entries, e.parts, enumeration)
                     ELSE <<>>)
                 \o FullTreeOf(entries, Tail(listed), enumeration)

\* lines 49-75
build_full_tree_recursive(entries, dir, enumeration) ==
    FullTreeOf(entries, SortedEntries(IterDir(entries, dir, enumeration)), enumeration)

\* lines 34-46
build_full_file_tree(entries, enumeration) ==
    build_full_tree_recursive(entries, <<>>, enumeration)

\* lines 155-178: whether a directory is skipped
DirectoryIgnored(e, exact, dpatterns) ==
    \/ e.parts[Len(e.parts)] \in exact
    \/ e.parts[Len(e.parts)] \in { <<".", "g", "i", "t">>, <<".", "s", "v", "n">>, <<".", "h", "g">>, <<".", "c", "a", "c", "h", "e">> }
    \/ \E q \in dpatterns : fnmatch(RelPath(e.parts), q)

\* lines 186-201: whether a file is skipped
FileIgnored(e, fpatterns) ==
    \/ \E suffix \in { <<".", "p", "y", "c">>, <<".", "p", "y", "o">>, <<".", "c", "l", "a", "s", "s">>, <<".", "o">>, <<".", "s", "o">>, <<".", "d", "l", "l">> } :
           EndsWith(e.parts[Len(e.parts)], suffix)
    \/ \E q \in fpatterns : fnmatch(RelPath(e.parts), q)

RECURSIVE FilteredTreeOf(_, _, _, _, _, _)
RECURSIVE build_file_tree_super_optimized(_, _, _, _, _, _)
\* lines 148-205: the nodes for the entries listed, in order; a directory
\* is entered in the tree when its subtree is not empty (lines 181-183)
FilteredTreeOf(entries, listed, exact, dpatterns, fpatterns, enumeration) ==
    IF listed = <<>> THEN <<>>
    ELSE LET e == Head(listed)
             subtree == build_file_tree_super_optimized(
                            entries, e.parts, exact, dpatterns, fpatterns, enumeration)
             nodes == IF e.is_dir
                      THEN IF DirectoryIgnored(e, exact, dpatterns) THEN <<>>
                           ELSE IF subtree # <<>>
                                THEN << [parts |-> e.parts, leaf |-> FALSE] >> \o subtree
                                ELSE <<>>
                      ELSE IF FileIgnored(e, fpatterns) THEN <<>>
                           ELSE << [parts |-> e.parts, leaf |-> TRUE] >>
         IN  nodes \o FilteredTreeOf(entries, Tail(listed), exact, dpatterns,
                                     fpatterns, enumeration)

\* lines 131-207
build_file_tree_super_optimized(entries, dir, exact, dpatterns, fpatterns, enumeration) ==
    FilteredTreeOf(entries, IterDir(entries, dir, enumeration), exact, dpatterns,
                   fpatterns, enumeration)

\* lines 78-128; the configuration is read by get_ignore_patterns only
build_file_tree_with_ignore(entries, patterns, config, enumeration) ==
    build_file_tree_super_optimized(entries, <<>>, dir_exact_matches(patterns),
                                    dir_patterns(patterns), file_patterns(patterns),
                                    enumeration)

\* the names on disk
WalkNames == <<<<"t", "m", "p">>, <<"d">>, <<"s">>, <<"e">>, <<"f">>, <<"g">>, <<"F">>>>

\* the orders in which the filesystem enumerates: one order of the names,
\* and the opposite order
Enumerations == { WalkNames, [i \in 1..Len(WalkNames) |-> WalkNames[Len(WalkNames) + 1 - i]] }

\* the entries a directory may hold: tmp/ with files at two depths, s/ with
\* a file, an empty e/, and the files f and F at the root
EntryPool ==
    { [parts |-> <<<<"t", "m", "p">>>>, is_dir |-> TRUE],
      [parts |-> <<<<"t", "m", "p">>, <<"d">>>>, is_dir |-> TRUE],
      [parts |-> <<<<"t", "m", "p">>, <<"d">>, <<"g">>>>, is_dir |-> FALSE],
      [parts |-> <<<<"t", "m", "p">>, <<"g">>>>, is_dir |-> FALSE],
      [parts |-> <<<<"s">>>>, is_dir |-> TRUE],
      [parts |-> <<<<"s">>, <<"f">>>>, is_dir |-> FALSE],
      [parts |-> <<<<"e">>>>, is_dir |-> TRUE],
      [parts |-> <<<<"f">>>>, is_dir |-> FALSE],
      [parts |-> <<<<"F">>>>, is_dir |-> FALSE] }

\* the directories on disk: every entry's parent is an entry and a directory
Directories ==
    { es \in SUBSET EntryPool :
          \A e \in es : Len(e.parts) > 1 =>
              [parts |-> SubSeq(e.parts, 1, Len(e.parts) - 1), is_dir |-> TRUE] \in es }

\* the resolved ignore patterns: plain names, a directory pattern, a glob
PatternPool == { <<"f">>, <<"s">>, <<"e", "/">>, <<"s", "/", "*">> }

WalkInit ==
    /\ walk_entries \in Directories
    /\ walk_patterns \in SUBSET PatternPool
    /\ walk_config \in [include_empty_directories : BOOLEAN,
                        include_full_directory_structure : BOOLEAN]
    /\ walk_enumeration \in Enumerations
    /\ walk_pc = "start"
    /\ walk_tree = <<>>
    /\ SplitIdle
    /\ ProcIdle
    /\ ConfigIdle
    /\ CliIdle
    /\ ActionIdle
    /\ RemoteIdle
    /\ CollectIdle
    /\ TreeIdle
    /\ GenIdle

\* _build_tree_for_directory, lines 391-394: the full tree
BuildFullFileTree ==
    /\ walk_pc = "start"
    /\ walk_config.include_full_directory_structure
    /\ walk_tree' = build_full_file_tree(walk_entries, walk_enumeration)
    /\ walk_pc' = "built"
    /\ UNCHANGED <<collectVars, remoteVars, actionVars, cliVars, configVars, splitVars, procVars, treeVars, genVars, walkArgs>>

\* _build_tree_for_directory, lines 395-396: the filtered tree
BuildFileTreeWithIgnore ==
    /\ walk_pc = "start"
    /\ ~walk_config.include_full_directory_structure
    /\ walk_tree' = build_file_tree_with_ignore(walk_entries, walk_patterns,
                                                walk_config, walk_enumeration)
    /\ walk_pc' = "built"
    /\ UNCHANGED <<collectVars, remoteVars, actionVars, cliVars, configVars, splitVars, procVars, treeVars, genVars, walkArgs>>

WalkNext ==
    \/ BuildFullFileTree
    \/ BuildFileTreeWithIgnore

WalkSpec == WalkInit /\ [][WalkNext]_vars

\* the paths of the nodes of a tree
TreeParts(tree) == {tree[i].parts : i \in 1..Len(tree)}

\* the entry of walk_entries for the first k names of a path, if it is a
\* directory
DirectoryAbove(entry_parts, k) == [parts |-> SubSeq(entry_parts, 1, k), is_dir |-> TRUE]

\* the names an exact-name rule ignores: the common names and the patterns
\* that are a plain name
ExactNameRules == common_ignores \cup {q \in walk_patterns : PlainName(q)}

\* the entry is a directory with such a name, or is below one
UnderExactName(e) ==
    \E k \in 1..Len(e.parts) :
        /\ e.parts[k] \in ExactNameRules
        /\ DirectoryAbove(e.parts, k) \in walk_entries

NotPruned(e) ==
    \A k \in 1..Len(e.parts) :
        ~DirectoryIgnored(DirectoryAbove(e.parts, k), dir_exact_matches(walk_patterns),
                          dir_patterns(walk_patterns))

\* nothing below the directory is entered in the filtered tree
NothingSurvives(e) ==
    build_file_tree_super_optimized(walk_entries, e.parts, dir_exact_matches(walk_patterns),
                                    dir_patterns(walk_patterns),
                                    file_patterns(walk_patterns), walk_enumeration) = <<>>

\* C15: in the filtered tree, a directory that is not pruned and has no
\* surviving entry is a node exactly when include_empty_directories is true.
C15_EmptyDirectoryByFlag ==
    (walk_pc = "built" /\ ~walk_config.include_full_directory_structure) =>
        \A e \in walk_entries : (e.is_dir /\ NotPruned(e) /\ NothingSurvives(e)) =>
            (e.parts \in TreeParts(walk_tree) <=> walk_config.include_empty_directories)

\* C16: in the filtered tree there is no file whose root-relative path
\* matches a pattern of the resolved ignore set, plain name or glob.
C16_IgnoredFilesAbsent ==
    (walk_pc = "built" /\ ~walk_config.include_full_directory_structure) =>
        \A e \in walk_entries : \A q \in walk_patterns :
            (~e.is_dir /\ fnmatch(RelPath(e.parts), CleanPattern(q)))
                => e.parts \notin TreeParts(walk_tree)

\* the tree the mode of the configuration builds, for an enumeration order
TreeFor(enumeration) ==
    IF walk_config.include_full_directory_structure
    THEN build_full_file_tree(walk_entries, enumeration)
    ELSE build_file_tree_with_ignore(walk_entries, walk_patterns, walk_config, enumeration)

\* C17: in both modes the tree built, keys and their order, is the same for
\* every order in which the filesystem enumerates the same entries.
C17_SameTreeForEveryEnumeration ==
    walk_pc = "built" => \A o \in Enumerations : TreeFor(o) = walk_tree

----------------------------------------------------------------------------
(* repo_processor.py: the files and the tree of a run over self.directories *)

\* Path(directory).resolve().name or str(dir_path), for a directory given
\* by a path with a last name
RootLabel(directory) ==
    IF PathName(directory) # <<>> THEN PathName(directory)
    ELSE PathStr(PathRooted(directory), PathNames(directory))

\* line 418: f"{root_label}/{raw_file.path}"
PrefixedPath(root_label, path) == root_label \o <<"/">> \o path

\* the directories given on the command line
DirectoryPool == { <<"a", "/", "s">>, <<"b", "/", "s">>, <<"t">> }

\* what search_files and collect_files give for a directory: relative
\* paths, each once
FoundLists == { <<>>, << <<"x">> >>, << <<"x">>, <<"d", "/", "y">> >> }

CollectInit ==
    /\ self_directories \in
           UNION { [1..n -> DirectoryPool] : n \in 1..MaxDirectories }
    /\ found_files \in [DirectoryPool -> FoundLists]
    /\ collect_pc = "start"
    /\ di = 0
    /\ all_raw_files = <<>>
    /\ merged_tree = <<>>
    /\ SplitIdle
    /\ ProcIdle
    /\ ConfigIdle
    /\ CliIdle
    /\ ActionIdle
    /\ RemoteIdle
    /\ TreeIdle
    /\ GenIdle
    /\ WalkIdle

\* lines 319-323: one directory, its files under their own paths and its
\* tree under the first names of those paths
CollectSingleDirectory ==
    /\ collect_pc = "start"
    /\ ~(Len(self_directories) > 1)
    /\ all_raw_files' = found_files[self_directories[1]]
    /\ merged_tree' = [q \in {PathNames(found_files[self_directories[1]][i])[1] :
                                 i \in 1..Len(found_files[self_directories[1]])} |->
                          self_directories[1]]
    /\ collect_pc' = "collected"
    /\ UNCHANGED <<remoteVars, actionVars, cliVars, configVars, splitVars, procVars, treeVars, genVars, walkVars, collectArgs, di>>

\* lines 405-407: _process_multiple_directories is entered
EnterMultipleDirectories ==
    /\ collect_pc = "start"
    /\ Len(self_directories) > 1
    /\ di' = 1
    /\ collect_pc' = "loop"
    /\ UNCHANGED <<remoteVars, actionVars, cliVars, configVars, splitVars, procVars, treeVars, genVars, walkVars, collectArgs,
                   all_raw_files, merged_tree>>

\* lines 409-424: one directory of the loop; the key of the merged tree
\* stands for the directory whose tree was assigned to it last
CollectDirectory ==
    /\ collect_pc = "loop"
    /\ di <= Len(self_directories)
    /\ LET directory == self_directories[di]
           root_label == RootLabel(directory)
           dir_raw_files == found_files[directory]
       IN  /\ all_raw_files' =
                  all_raw_files \o [i \in 1..Len(dir_raw_files) |->
                                       PrefixedPath(root_label, dir_raw_files[i])]
           /\ merged_tree' =
                  [q \in DOMAIN merged_tree \cup {root_label} |->
                      IF q = root_label THEN directory ELSE merged_tree[q]]
    /\ di' = di + 1
    /\ UNCHANGED <<remoteVars, actionVars, cliVars, configVars, splitVars, procVars, treeVars, genVars, walkVars, collectArgs, collect_pc>>

\* line 426
ReturnMultipleDirectories ==
    /\ collect_pc = "loop"
    /\ di > Len(self_directories)
    /\ collect_pc' = "collected"
    /\ UNCHANGED <<remoteVars, actionVars, cliVars, configVars, splitVars, procVars, treeVars, genVars, walkVars, collectArgs, di,
                   all_raw_files, merged_tree>>

CollectNext ==
    \/ CollectSingleDirectory
    \/ EnterMultipleDirectories
    \/ CollectDirectory
    \/ ReturnMultipleDirectories

CollectSpec == CollectInit /\ [][CollectNext]_vars

\* C21: in one run no two collected files have the same path, and in a run
\* over several directories every top-level key of the merged tree stands
\* for exactly one of the directories given: distinct directories have
\* distinct keys.
C21_PathIsUniqueKey ==
    collect_pc = "collected" =>
        /\ \A i, j \in 1..Len(all_raw_files) :
               i # j => all_raw_files[i] # all_raw_files[j]
        /\ Len(self_directories) > 1 =>
               Cardinality(DOMAIN merged_tree)
                   = Cardinality({self_directories[i] : i \in 1..Len(self_directories)})

----------------------------------------------------------------------------
(* repo_processor.py: process on a remote repository and its temporary    *)
(* directory                                                              *)

\* the steps of process that can raise
RemoteSteps == {"create", "clone", "search", "no files", "generate", "write"}

RemoteInit ==
    /\ repo_url \in BOOLEAN
    /\ remote_write_output \in BOOLEAN
    /\ remote_failing \in [1..MaxCalls -> RemoteSteps \cup {"none"}]
    /\ remote_call = 1
    /\ remote_pc = "try"
    /\ self_temp_dir = <<>>
    /\ temp_directories = {}
    /\ remote_outcome = "none"
    /\ SplitIdle
    /\ ProcIdle
    /\ ConfigIdle
    /\ CliIdle
    /\ ActionIdle
    /\ TreeIdle
    /\ GenIdle
    /\ WalkIdle
    /\ CollectIdle

\* whether the step raises in this call
Fails(step) == remote_failing[remote_call] = step

\* an exception leaves the try block: the finally clause runs next
Raise ==
    /\ remote_pc' = "finally"
    /\ remote_outcome' = "raised"

\* line 388: if self.temp_dir
cleanup_due_on_return == self_temp_dir # <<>> /\ remote_outcome = "returned"
cleanup_due == self_temp_dir # <<>>

\* lines 288-289: create_temp_directory gives a directory that did not exist
CreateTempDirectory ==
    /\ remote_pc = "try"
    /\ repo_url
    /\ IF Fails("create")
       THEN Raise /\ UNCHANGED <<self_temp_dir, temp_directories>>
       ELSE /\ self_temp_dir' = <<remote_call>>
            /\ temp_directories' = temp_directories \cup {remote_call}
            /\ remote_pc' = "clone"
            /\ UNCHANGED remote_outcome
    /\ UNCHANGED <<actionVars, cliVars, configVars, splitVars, procVars, treeVars, genVars, walkVars, collectVars,
                   remoteArgs, remote_call>>

\* line 288: no repo_url, a local run
SkipClone ==
    /\ remote_pc = "try"
    /\ ~repo_url
    /\ remote_pc' = "collect"
    /\ UNCHANGED <<actionVars, cliVars, configVars, splitVars, procVars, treeVars, genVars, walkVars, collectVars,
                   remoteArgs, remote_call, self_temp_dir, temp_directories,
                   remote_outcome>>

\* lines 290-292
CloneRepository ==
    /\ remote_pc = "clone"
    /\ IF Fails("clone")
       THEN Raise
       ELSE remote_pc' = "collect" /\ UNCHANGED remote_outcome
    /\ UNCHANGED <<actionVars, cliVars, configVars, splitVars, procVars, treeVars, genVars, walkVars, collectVars,
                   remoteArgs, remote_call, self_temp_dir, temp_directories>>

\* lines 294-326: the files are searched and collected; none is an error
CollectRawFiles ==
    /\ remote_pc = "collect"
    /\ IF Fails("search") \/ Fails("no files")
       THEN Raise
       ELSE remote_pc' = "generate" /\ UNCHANGED remote_outcome
    /\ UNCHANGED <<actionVars, cliVars, configVars, splitVars, procVars, treeVars, genVars, walkVars, collectVars,
                   remoteArgs, remote_call, self_temp_dir, temp_directories>>

\* lines 328-370
GenerateOutput ==
    /\ remote_pc = "generate"
    /\ IF Fails("generate")
       THEN Raise
       ELSE remote_pc' = "write" /\ UNCHANGED remote_outcome
    /\ UNCHANGED <<actionVars, cliVars, configVars, splitVars, procVars, treeVars, genVars, walkVars, collectVars,
                   remoteArgs, remote_call, self_temp_dir, temp_directories>>

\* lines 372-385: the output is written when asked for, and the result is
\* returned through the finally clause
WriteAndReturn ==
    /\ remote_pc = "write"
    /\ IF remote_write_output /\ Fails("write")
       THEN Raise
       ELSE remote_pc' = "finally" /\ remote_outcome' = "returned"
    /\ UNCHANGED <<actionVars, cliVars, configVars, splitVars, procVars, treeVars, genVars, walkVars, collectVars,
                   remoteArgs, remote_call, self_temp_dir, temp_directories>>

\* lines 387-389: the finally clause, then the call ends as it was ending
Finally ==
    /\ remote_pc = "finally"
    /\ temp_directories' =
           IF cleanup_due THEN temp_directories \ {self_temp_dir[1]}
           ELSE temp_directories
    /\ remote_pc' = remote_outcome
    /\ UNCHANGED <<actionVars, cliVars, configVars, splitVars, procVars, treeVars, genVars, walkVars, collectVars,
                   remoteArgs, remote_call, self_temp_dir, remote_outcome>>

\* process is called again on the same processor
ProcessAgain ==
    /\ remote_pc \in {"returned", "raised"}
    /\ remote_call < MaxCalls
    /\ remote_call' = remote_call + 1
    /\ remote_pc' = "try"
    /\ remote_outcome' = "none"
    /\ UNCHANGED <<actionVars, cliVars, configVars, splitVars, procVars, treeVars, genVars, walkVars, collectVars,
                   remoteArgs, self_temp_dir, temp_directories>>

RemoteNext ==
    \/ CreateTempDirectory
    \/ SkipClone
    \/ CloneRepository
    \/ CollectRawFiles
    \/ GenerateOutput
    \/ WriteAndReturn
    \/ Finally
    \/ ProcessAgain

RemoteSpec == RemoteInit /\ [][RemoteNext]_vars

\* C30: when process has returned or raised, no temporary directory it
\* created exists any more, whichever step failed.
C30_TempDirectoryCleaned ==
    remote_pc \in {"returned", "raised"} => temp_directories = {}

\* a remote call that created its directory and failed while writing
C30_Witness ==
    /\ remote_pc = "raised"
    /\ repo_url
    /\ remote_failing[remote_call] = "write"
    /\ self_temp_dir = <<remote_call>>
    /\ temp_directories = {}

----------------------------------------------------------------------------
(* default_action.py: run_default_action and the checks of its options    *)

\* None as the value of an option: what options.get gives when it is absent
NoOption == "NoOption"

\* the values an option takes: flags are True or absent or False, the
\* others a text, possibly empty, or absent
OptionValues ==
    [split_output |-> {NoOption, "", "500kb"},
     skill_generate |-> {NoOption, "True", "my-skill"},
     stdout |-> {NoOption, "False", "True"},
     copy |-> {"False", "True"},
     skill_output |-> {NoOption, "", "out"},
     force |-> {"False", "True"},
     stdin |-> {"False", "True"}]

\* bool(value) for the values above
Truthy(value) == value \notin {NoOption, "", "False"}

\* lines 132-138, the pairs of conflicts
conflicts_without_copy == << <<"split_output", "stdout">>, <<"split_output", "skill_generate">>, <<"split_output", "copy">>, <<"skill_generate", "stdout">> >>
conflicts == << <<"split_output", "stdout">>, <<"split_output", "skill_generate">>, <<"split_output", "copy">>, <<"skill_generate", "stdout">>, <<"skill_generate", "copy">> >>

\* lines 110-120: whether _validate_skill_options raises
SkillOptionsRaise(opts) ==
    \/ Truthy(opts.skill_output) /\ opts.skill_generate = NoOption
    \/ Truthy(opts.force) /\ opts.skill_generate = NoOption
    \/ opts.skill_output # NoOption /\ opts.skill_output = ""

\* lines 140-145: whether _validate_option_conflicts raises
OptionConflictsRaise(opts) ==
    \E k \in 1..Len(conflicts) :
        Truthy(opts[conflicts[k][1]]) /\ Truthy(opts[conflicts[k][2]])

ActionInit ==
    /\ options \in [split_output : OptionValues.split_output,
                    skill_generate : OptionValues.skill_generate,
                    stdout : OptionValues.stdout,
                    copy : OptionValues.copy,
                    skill_output : OptionValues.skill_output,
                    force : OptionValues.force,
                    stdin : OptionValues.stdin]
    /\ action_pc = "start"
    /\ action_error = <<>>
    /\ config_loaded = FALSE
    /\ processor_created = FALSE
    /\ processor_ran = FALSE
    /\ SplitIdle
    /\ ProcIdle
    /\ ConfigIdle
    /\ CliIdle
    /\ TreeIdle
    /\ GenIdle
    /\ WalkIdle
    /\ CollectIdle
    /\ RemoteIdle

\* lines 84, 101-120
ValidateSkillOptions ==
    /\ action_pc = "start"
    /\ IF SkillOptionsRaise(options)
       THEN action_error' = <<"RepomixError">> /\ action_pc' = "raised"
       ELSE action_pc' = "conflicts" /\ UNCHANGED action_error
    /\ UNCHANGED <<cliVars, configVars, splitVars, procVars, treeVars, genVars, walkVars, collectVars,
                   remoteVars, options, config_loaded, processor_created, processor_ran>>

\* lines 87, 123-145
ValidateOptionConflicts ==
    /\ action_pc = "conflicts"
    /\ IF OptionConflictsRaise(options)
       THEN action_error' = <<"RepomixError">> /\ action_pc' = "raised"
       ELSE action_pc' = "load" /\ UNCHANGED action_error
    /\ UNCHANGED <<cliVars, configVars, splitVars, procVars, treeVars, genVars, walkVars, collectVars,
                   remoteVars, options, config_loaded, processor_created, processor_ran>>

\* lines 90-99, 159-160, 203-205: either way the configuration is loaded
\* first; loading can fail
LoadConfig ==
    /\ action_pc = "load"
    /\ \E ok \in BOOLEAN :
           IF ok
           THEN config_loaded' = TRUE /\ action_pc' = "create" /\ UNCHANGED action_error
           ELSE /\ action_error' = <<"RepomixError">>
                /\ action_pc' = "raised"
                /\ UNCHANGED config_loaded
    /\ UNCHANGED <<cliVars, configVars, splitVars, procVars, treeVars, genVars, walkVars, collectVars,
                   remoteVars, options, processor_created, processor_ran>>

\* lines 171-173, 208-217
CreateProcessor ==
    /\ action_pc = "create"
    /\ processor_created' = TRUE
    /\ action_pc' = "process"
    /\ UNCHANGED <<cliVars, configVars, splitVars, procVars, treeVars, genVars, walkVars, collectVars,
                   remoteVars, options, action_error, config_loaded, processor_ran>>

\* lines 174, 218: processor.process(), which can fail
RunProcessor ==
    /\ action_pc = "process"
    /\ processor_ran' = TRUE
    /\ \E ok \in BOOLEAN :
           IF ok
           THEN action_pc' = "returned" /\ UNCHANGED action_error
           ELSE action_error' = <<"RepomixError">> /\ action_pc' = "raised"
    /\ UNCHANGED <<cliVars, configVars, splitVars, procVars, treeVars, genVars, walkVars, collectVars,
                   remoteVars, options, config_loaded, processor_created>>

ActionNext ==
    \/ ValidateSkillOptions
    \/ ValidateOptionConflicts
    \/ LoadConfig
    \/ CreateProcessor
    \/ RunProcessor

ActionSpec == ActionInit /\ [][ActionNext]_vars

\* the options hold one of the five pairs that exclude each other
ConflictingPair ==
    \/ Truthy(options.split_output) /\ Truthy(options.stdout)
    \/ Truthy(options.split_output) /\ Truthy(options.skill_generate)
    \/ Truthy(options.split_output) /\ Truthy(options.copy)
    \/ Truthy(options.skill_generate) /\ Truthy(options.stdout)
    \/ Truthy(options.skill_generate) /\ Truthy(options.copy)

\* C23: with a conflicting pair among the options, run_default_action never
\* loads a configuration, never creates or runs a processor, never returns,
\* and what it raises is a RepomixError.
C23_ConflictRaisesFirst ==
    action_pc # "idle" /\ ConflictingPair =>
        /\ ~config_loaded
        /\ ~processor_created
        /\ ~processor_ran
        /\ action_pc \in {"start", "conflicts", "raised"}
        /\ action_pc = "raised" => action_error = <<"RepomixError">>

\* skill_generate with copy, raised by the check of the pairs
C23_Witness ==
    /\ action_pc = "raised"
    /\ action_error = <<"RepomixError">>
    /\ Truthy(options.skill_generate) /\ Truthy(options.copy)
    /\ ~Truthy(options.split_output) /\ ~Truthy(options.stdout)
    /\ ~SkillOptionsRaise(options)

----------------------------------------------------------------------------
(* cli_run.py: run_cli invocations on one event loop                      *)

Invocations == 1..MaxInvocations

CliInit ==
    /\ verbose_before \in BOOLEAN
    /\ logger_verbose = verbose_before
    /\ cli_quiet \in [Invocations -> BOOLEAN]
    /\ cli_raises \in [Invocations -> BOOLEAN]
    /\ cli_pc = [i \in Invocations |-> "ready"]
    /\ original_verbose = [i \in Invocations |-> FALSE]
    /\ cli_result = [i \in Invocations |-> "pending"]
    /\ SplitIdle
    /\ ProcIdle
    /\ ConfigIdle
    /\ TreeIdle
    /\ GenIdle
    /\ WalkIdle
    /\ CollectIdle
    /\ RemoteIdle
    /\ ActionIdle

\* lines 226-251: up to the await, where the coroutine gives the loop to
\* the others while run_default_action runs in its thread
EnterRunCli(i) ==
    /\ cli_pc[i] = "ready"
    /\ original_verbose' = [original_verbose EXCEPT ![i] = logger_verbose]
    /\ logger_verbose' = ~cli_quiet[i]
    /\ cli_pc' = [cli_pc EXCEPT ![i] = "awaiting"]
    /\ UNCHANGED <<configVars, splitVars, procVars, treeVars, genVars, walkVars, collectVars,
                   remoteVars, actionVars, cliArgs, cli_result>>

\* lines 251-262: the thread has ended, the coroutine goes on: the finally
\* clause restores the flag, and an exception makes the result None
LeaveRunCli(i) ==
    /\ cli_pc[i] = "awaiting"
    /\ logger_verbose' = original_verbose[i]
    /\ cli_result' = [cli_result EXCEPT ![i] =
                          IF cli_raises[i] THEN "None" ELSE "CliResult"]
    /\ cli_pc' = [cli_pc EXCEPT ![i] = "done"]
    /\ UNCHANGED <<configVars, splitVars, procVars, treeVars, genVars, walkVars, collectVars,
                   remoteVars, actionVars, cliArgs, original_verbose>>

CliNext ==
    \E i \in Invocations :
        \/ EnterRunCli(i)
        \/ LeaveRunCli(i)

CliSpec == CliInit /\ [][CliNext]_vars

\* C29: once every invocation of run_cli has completed, the verbose flag of
\* the logger is what it was before the first invocation began.
C29_VerboseRestored ==
    (\A i \in Invocations : cli_pc[i] = "done") => logger_verbose = verbose_before

----------------------------------------------------------------------------
(* config_schema.py and config_load.py: the output style and the merge of *)
(* the configurations                                                     *)

\* a text or flag, an object with its __dict__, a dict
Str(v) == [kind |-> "str", v |-> v]
Obj(fields) == [kind |-> "object", dict |-> fields]
Dict(items) == [kind |-> "dict", dict |-> items]

\* a mapping without some keys
Restrict(f, keys) == [k \in DOMAIN f \cap keys |-> f[k]]

\* the values of RepomixOutputStyle
OutputStyles == {"plain", "xml", "markdown", "json"}

\* str.lower on the texts given as styles
TextLower(text) ==
    CASE text = "XML" -> "xml" [] text = "Markdown" -> "markdown" [] OTHER -> text

\* line 77: what __post_init__ leaves in _style_enum for a text
style_enum_of_text(style) ==
    IF TextLower(style) \in OutputStyles THEN TextLower(style) ELSE "markdown"

\* RepomixConfigOutput(**given): the fields, then __post_init__
RepomixConfigOutput(given) ==
    LET style == IF "style" \in DOMAIN given THEN given["style"] ELSE "markdown"
    IN  Obj([k \in {"style", "file_path", "show_line_numbers", "_original_style",
                    "_style_enum"} |->
               CASE k = "style" -> Str(style)
                 [] k = "file_path" ->
                        Str(IF k \in DOMAIN given THEN given[k] ELSE "repomix-output.md")
                 [] k = "show_line_numbers" ->
                        Str(IF k \in DOMAIN given THEN given[k] ELSE "False")
                 [] k = "_original_style" -> Str(style)
                 [] k = "_style_enum" -> Str(style_enum_of_text(style))])

\* RepomixConfigIgnore(**given)
RepomixConfigIgnore(given) ==
    Obj([k \in {"use_gitignore"} |->
            Str(IF k \in DOMAIN given THEN given[k] ELSE "True")])

\* RepomixConfig(**config_dict).__dict__: sections given as dicts become
\* objects
RepomixConfig(config_dict) ==
    [k \in {"output", "ignore"} |->
        LET given == IF k \in DOMAIN config_dict THEN config_dict[k] ELSE <<>>
        IN  IF k = "output" THEN RepomixConfigOutput(given)
            ELSE RepomixConfigIgnore(given)]

\* _process_style_value on the __dict__ of an output object: the new
\* __dict__, or nothing for ValueError
process_style_value(fields, value) ==
    IF TextLower(value) \in OutputStyles
    THEN Some([fields EXCEPT !["_style_enum"] = Str(TextLower(value)),
                             !["style"] = Str(TextLower(value))])
    ELSE None

RECURSIVE merge_config_dict(_, _)
\* merge_config_dict: the target after the call; a key whose value is None
\* is a key the source does not have
merge_config_dict(target, source) ==
    [key \in DOMAIN target \cup DOMAIN source |->
        IF key \notin DOMAIN source THEN target[key]
        ELSE LET value == source[key]
             IN  IF value.kind = "dict"
                 THEN IF key \in DOMAIN target
                      THEN IF target[key].kind = "dict"
                           THEN Dict(merge_config_dict(target[key].dict, value.dict))
                           ELSE IF target[key].kind = "object"
                           THEN Obj(merge_config_dict(target[key].dict, value.dict))
                           ELSE value
                      ELSE value
                 ELSE value]

\* the CLI options as the dict of dicts that merge_config_dict is given
CliDict(cli) ==
    [k \in DOMAIN cli |-> Dict([n \in DOMAIN cli[k] |-> Str(cli[k][n])])]

\* lines 135-142: the file path that the style of the CLI brings with it
cli_options_with_file_path(cli) ==
    LET output == IF "output" \in DOMAIN cli THEN cli["output"] ELSE <<>>
        style == IF "style" \in DOMAIN output THEN output["style"] ELSE "None"
        add(path) == [cli EXCEPT !["output"] =
                         [n \in DOMAIN output \cup {"file_path"} |->
                             IF n = "file_path" THEN path ELSE output[n]]]
    IN  IF cli = <<>> \/ "file_path" \in DOMAIN output THEN cli
        ELSE IF style = "markdown" THEN add("repomix-output.md")
        ELSE IF style = "xml" THEN add("repomix-output.xml")
        ELSE IF style = "plain" THEN add("repomix-output.txt")
        ELSE cli

\* merge_configs: the __dict__ of the merged configuration
merge_configs(global_config, local_config, cli) ==
    LET base == RepomixConfig(<<>>)
        with_global == IF global_config # None
                       THEN merge_config_dict(base, global_config[1]) ELSE base
        with_local == IF local_config # None
                      THEN merge_config_dict(with_global, local_config[1])
                      ELSE with_global
    IN  IF cli # <<>>
        THEN merge_config_dict(with_local, CliDict(cli_options_with_file_path(cli)))
        ELSE with_local

\* load_global_config, load_local_config: no file gives None, a file the
\* configuration built from its content
LoadedConfig(file) == IF file = None THEN None ELSE Some(RepomixConfig(file[1]))

\* the styles and settings written in configuration files
FileOutputs ==
    { Restrict(full, keys) :
        full \in [style : {"XML", "bogus"}, file_path : {"mine.txt"},
                  show_line_numbers : {"True"}],
        keys \in SUBSET {"style", "file_path", "show_line_numbers"} }
ConfigFiles == {None} \cup { Some([k \in {"output"} |-> given]) : given \in FileOutputs }

\* the options _build_cli_options_override gives: no None values, no empty
\* section
CliOutputs ==
    { Restrict(full, keys) :
        full \in [style : {"xml", "bogus"}, file_path : {"cli.txt"}],
        keys \in (SUBSET {"style", "file_path"}) \ {{}} }
CliOptionsPool ==
    { Restrict(full, keys) :
        full \in [output : CliOutputs, ignore : {[use_gitignore |-> "False"]}],
        keys \in SUBSET {"output", "ignore"} }

\* the values assigned to output.style and output.style_enum
AssignedStyles == {"json", "XML", "bogus"}

ConfigInit ==
    /\ global_file \in ConfigFiles
    /\ local_file \in ConfigFiles
    /\ cli_options \in CliOptionsPool
    /\ config_pc = "start"
    /\ merged_config = <<>>
    /\ config_error = <<>>
    /\ assignments = 0
    /\ SplitIdle
    /\ ProcIdle
    /\ TreeIdle
    /\ GenIdle
    /\ WalkIdle
    /\ CollectIdle
    /\ RemoteIdle
    /\ ActionIdle
    /\ CliIdle

\* load_config, lines 36-43: the two files are loaded and merged with the
\* CLI options, whose dict merge_configs may extend
MergeConfigs ==
    /\ config_pc = "start"
    /\ merged_config' =
           merge_configs(LoadedConfig(global_file), LoadedConfig(local_file), cli_options)
    /\ cli_options' = cli_options_with_file_path(cli_options)
    /\ config_pc' = "merged"
    /\ UNCHANGED <<splitVars, procVars, treeVars, genVars, walkVars, collectVars,
                   remoteVars, actionVars, cliVars, global_file, local_file,
                   config_error, assignments>>

\* config.output.style = value or config.output.style_enum = value, lines
\* 110-126: both run _process_style_value
AssignStyle ==
    /\ config_pc = "merged"
    /\ assignments < MaxAssignments
    /\ assignments' = assignments + 1
    /\ \E value \in AssignedStyles :
           LET processed == process_style_value(merged_config["output"].dict, value)
           IN  IF processed = None
               THEN config_error' = <<"ValueError">> /\ UNCHANGED merged_config
               ELSE /\ merged_config' =
                           [merged_config EXCEPT !["output"] = Obj(processed[1])]
                    /\ config_error' = <<>>
    /\ UNCHANGED <<splitVars, procVars, treeVars, genVars, walkVars, collectVars,
                   remoteVars, actionVars, cliVars, global_file, local_file,
                   cli_options, config_pc>>

ConfigNext ==
    \/ MergeConfigs
    \/ AssignStyle

ConfigSpec == ConfigInit /\ [][ConfigNext]_vars

\* the settings of the output section
OutputSettings == {"style", "file_path", "show_line_numbers"}

\* what a configuration file or the CLI gives for the output section
OutputGiven(dict) == IF "output" \in DOMAIN dict THEN dict["output"] ELSE <<>>
FileGives(file) == IF file = None THEN <<>> ELSE OutputGiven(file[1])

\* the value of a setting of the output section of the merged configuration
Merged(setting) == merged_config["output"].dict[setting].v

\* a style that is none of the four has entered, from a file or the CLI
InvalidStyleEntered ==
    \E given \in {FileGives(global_file), FileGives(local_file), OutputGiven(cli_options)} :
        "style" \in DOMAIN given /\ TextLower(given["style"]) \notin OutputStyles

\* C22: a configuration is never built or merged without an error from a
\* style that is not one of plain, xml, markdown, json.
C22_InvalidStyleRejected ==
    config_pc = "merged" => ~InvalidStyleEntered

\* C26: in the merged configuration a setting that the global file gives,
\* and neither the local file nor the CLI, has the value of the global file.
C26_GlobalSettingKept ==
    config_pc = "merged" /\ assignments = 0 =>
        \A setting \in DOMAIN FileGives(global_file) :
            /\ setting \notin DOMAIN FileGives(local_file)
            /\ setting \notin DOMAIN OutputGiven(cli_options)
            => Merged(setting) = FileGives(global_file)[setting]

\* C27: the style_enum of the merged configuration is the member that its
\* style names.
C27_StyleEnumNamedByStyle ==
    config_pc = "merged" => Merged("_style_enum") = TextLower(Merged("style"))

\* the merge of the configuration files alone
FilesConfig == merge_configs(LoadedConfig(global_file), LoadedConfig(local_file), <<>>)

\* C28: merge_configs leaves every setting of the output section that the
\* CLI options do not supply as the configuration files have it.
C28_OnlySuppliedSettingsChange ==
    [][config_pc = "start" /\ config_pc' = "merged" =>
          \A setting \in OutputSettings \ DOMAIN OutputGiven(cli_options) :
              merged_config'["output"].dict[setting] = FilesConfig["output"].dict[setting]]_vars

====
